---- MODULE Spec2Model ----
(***************************************************************************)
(* Model of matterbuild's plugin-release pipeline: the cutplugin slash     *)
(* command (server/server.go, cutPluginCommandF) and the workflow behind   *)
(* it (plugin_release.go: createTag, cutPlugin and the stages it calls).   *)
(*                                                                         *)
(* Strings are sequences of tokens, so that prefix, suffix and             *)
(* concatenation mean what they mean in the Go code.  An error value is    *)
(* the sequence of its messages, outermost first; the empty sequence is    *)
(* the nil error.                                                          *)
(***************************************************************************)
EXTENDS Integers, Sequences, FiniteSets, TLC

VARIABLES
    pc,                 \* pc[p]: where request p stands
    req,                \* req[p]: the arguments of the slash command
    ct,                 \* ct[p]: locals of createTag: commitSHA, branch, the refs the lookup
                        \* returned (looked: it answered), the returned error (done: returned)
    cp,                 \* cp[p]: locals of cutPlugin
    fs,                 \* fs[p]: the files of p's temporary folder, name -> content
    elapsed,            \* elapsed[p]: polling intervals waited in the current wait
    resp,               \* resp[p]: what the command handler wrote to the HTTP response
    posts,              \* posts[p]: messages posted to the response URL
    calls,              \* calls[p]: the calls p has issued to its collaborators, in order
    hostRefs,           \* source host: ref name -> commit it points at (NoSha: no such ref)
    hostTagObjs,        \* source host: annotated tag objects, [tag, sha]
    hostDefaultBranch,  \* source host: the repository's default branch ("" if not reported)
    hostReleases,       \* source host: tag -> release (exists, prerelease, assets)
    remoteFiles,        \* signing host: path -> content
    s3Objects,          \* object store: key -> content
    cfg                 \* the configuration (Cfg)

tagVars == <<ct, hostRefs, hostTagObjs, hostDefaultBranch>>
workflowVars == <<cp, fs, elapsed, resp, posts, hostReleases, remoteFiles, s3Objects, cfg>>
vars == <<pc, req, calls, tagVars, workflowVars>>

Procs == {1, 2}

----------------------------------------------------------------------------
(* strings *)

\* strings.HasSuffix
HasSuffix(s, suffix) ==
    /\ Len(suffix) <= Len(s)
    /\ SubSeq(s, Len(s) - Len(suffix) + 1, Len(s)) = suffix

\* strings.HasPrefix
HasPrefix(s, prefix) ==
    /\ Len(prefix) <= Len(s)
    /\ SubSeq(s, 1, Len(prefix)) = prefix

----------------------------------------------------------------------------
(* errors (github.com/pkg/errors) *)

Nil == <<>>

\* errors.New(msg)
NewErr(msg) == <<msg>>

\* errors.Wrap(err, msg): nil if err is nil
Wrap(err, msg) == IF err = Nil THEN Nil ELSE <<msg>> \o err

ErrTagExists == NewErr("tag already exists")

\* errors.Is(err, target): some error of the chain is target
ErrorsIs_always(err, target) == TRUE

\* errors.Is(err, target)
ErrorsIs(err, target) == err # Nil /\ HasSuffix(err, target)

\* what a failed call to a collaborator returns
HostErr == NewErr("host error")
NotFoundErr == NewErr("404 Not Found")

----------------------------------------------------------------------------
(* the source host's refs *)

NoSha == "none"

TagV1 == <<"v", "1.0.0">>
TagV1rc == <<"v", "1.0.0", "-rc1">>
TagNested == <<"v", "1.0.0", "/", "tags", "/", "v", "1.0.0">>
TagV2 == <<"v", "2.0.0">>
HostTagNames == {TagV1, TagV1rc, TagNested, TagV2}

Branches == {"master", "main"}
HostCommits == {"c0", "c1", "c2", "c3"}

\* fmt.Sprintf("tags/%s", tag)
tagRefOf(tag) == <<"tags", "/">> \o tag

\* "heads/" + branch
headRefOf(branch) == <<"heads", "/", branch>>

\* the host's fully qualified name of a ref
FullRef(ref) == <<"refs", "/">> \o ref

HostRefNames ==
    {FullRef(tagRefOf(t)) : t \in HostTagNames} \cup {FullRef(headRefOf(b)) : b \in Branches}

\* git keeps refs as paths: a ref cannot also be a directory of refs
RefConflict(a, b) ==
    a # b /\ (HasPrefix(a, b \o <<"/">>) \/ HasPrefix(b, a \o <<"/">>))

\* Git.GetRefs: the refs whose name starts with the requested one
MatchingRefs(refs, ref) ==
    {r \in HostRefNames : refs[r] # NoSha /\ HasPrefix(r, FullRef(ref))}

\* the host's condition for Git.CreateRef to be accepted
HostAcceptsRef(refs, name) ==
    /\ refs[name] = NoSha
    /\ \A r \in HostRefNames : refs[r] # NoSha => ~RefConflict(r, name)

----------------------------------------------------------------------------
(* createTag *)

Logged(p, op, arg, res) == Append(calls[p], [op |-> op, arg |-> arg, res |-> res])

RefMatchesTag_exact(ref, tagRef) == ref = tagRef

\* strings.HasSuffix(ref.GetRef(), tagRef)
RefMatchesTag(ref, tagRef) == HasSuffix(ref, tagRef)

createTag_return(p, err) ==
    /\ ct' = [ct EXCEPT ![p].ret = err, ![p].done = TRUE]
    /\ pc' = [pc EXCEPT ![p] = "createTag_ret"]

\* refs, _, err := client.Git.GetRefs(...) and the loop over refs
createTag_GetRefs(p) ==
    /\ pc[p] = "createTag"
    /\ LET tagRef == tagRefOf(req[p].tag)
           found == MatchingRefs(hostRefs, tagRef)
       IN  \E fail \in BOOLEAN :
             IF fail
             THEN /\ calls' = [calls EXCEPT ![p] = Logged(p, "Git.GetRefs", tagRef, "err")]
                  /\ createTag_return(p, Wrap(HostErr, "failed to get github tag"))
             ELSE /\ calls' = [calls EXCEPT ![p] =
                          Logged(p, "Git.GetRefs", tagRef, IF found = {} THEN "404" ELSE "ok")]
                  /\ IF \E r \in found : RefMatchesTag(r, tagRef)
                     THEN /\ ct' = [ct EXCEPT ![p].refs = found, ![p].ret = ErrTagExists,
                                            ![p].looked = TRUE, ![p].done = TRUE]
                          /\ pc' = [pc EXCEPT ![p] = "createTag_ret"]
                     ELSE /\ ct' = [ct EXCEPT ![p].refs = found, ![p].looked = TRUE]
                          /\ pc' = [pc EXCEPT ![p] =
                                 IF ct[p].commitSHA = "" THEN "createTag_Get"
                                                         ELSE "createTag_GetCommit"]
    /\ UNCHANGED <<req, hostRefs, hostTagObjs, hostDefaultBranch, workflowVars>>

createTag_Get_master(p) ==
    /\ pc[p] = "createTag_Get"
    /\ \E fail \in BOOLEAN :
         /\ calls' = [calls EXCEPT ![p] =
                Logged(p, "Repositories.Get", <<>>, IF fail THEN "err" ELSE "ok")]
         /\ ct' = [ct EXCEPT ![p].branch = "master"]
    /\ pc' = [pc EXCEPT ![p] = "createTag_GetRef"]
    /\ UNCHANGED <<req, hostRefs, hostTagObjs, hostDefaultBranch, workflowVars>>

\* repo, _, err = client.Repositories.Get(...); branch := "master" unless a default is reported
createTag_Get(p) ==
    /\ pc[p] = "createTag_Get"
    /\ \E fail \in BOOLEAN :
         /\ calls' = [calls EXCEPT ![p] =
                Logged(p, "Repositories.Get", <<>>, IF fail THEN "err" ELSE "ok")]
         /\ ct' = [ct EXCEPT ![p].branch =
                IF ~fail /\ hostDefaultBranch # "" THEN hostDefaultBranch ELSE "master"]
    /\ pc' = [pc EXCEPT ![p] = "createTag_GetRef"]
    /\ UNCHANGED <<req, hostRefs, hostTagObjs, hostDefaultBranch, workflowVars>>

\* ref, _, err = client.Git.GetRef(ctx, owner, repository, "heads/"+branch)
createTag_GetRef(p) ==
    /\ pc[p] = "createTag_GetRef"
    /\ LET name == headRefOf(ct[p].branch)
           sha == hostRefs[FullRef(name)]
       IN  \E fail \in BOOLEAN :
             IF fail \/ sha = NoSha
             THEN /\ calls' = [calls EXCEPT ![p] =
                         Logged(p, "Git.GetRef", name, IF fail THEN "err" ELSE "404")]
                  /\ createTag_return(p,
                         Wrap(IF fail THEN HostErr ELSE NotFoundErr, "failed to get github ref"))
             ELSE /\ calls' = [calls EXCEPT ![p] = Logged(p, "Git.GetRef", name, "ok")]
                  /\ ct' = [ct EXCEPT ![p].commitSHA = sha]
                  /\ pc' = [pc EXCEPT ![p] = "createTag_CreateTag"]
    /\ UNCHANGED <<req, hostRefs, hostTagObjs, hostDefaultBranch, workflowVars>>

CommitLookupFailed_onlyNotFound(res) == res = "404"

\* _, _, err = client.Repositories.GetCommit(...); if err != nil
CommitLookupFailed(res) == res # "ok"

\* _, _, err = client.Repositories.GetCommit(ctx, owner, repository, commitSHA)
createTag_GetCommit(p) ==
    /\ pc[p] = "createTag_GetCommit"
    /\ LET sha == ct[p].commitSHA
       IN  \E fail \in BOOLEAN :
             LET res == IF fail THEN "err" ELSE IF sha \notin HostCommits THEN "404" ELSE "ok"
             IN  /\ calls' = [calls EXCEPT ![p] = Logged(p, "Repositories.GetCommit", sha, res)]
                 /\ IF CommitLookupFailed(res)
                    THEN createTag_return(p,
                             Wrap(IF fail THEN HostErr ELSE NotFoundErr,
                                  "failed to fetch sha details"))
                    ELSE /\ pc' = [pc EXCEPT ![p] = "createTag_CreateTag"]
                         /\ UNCHANGED ct
    /\ UNCHANGED <<req, hostRefs, hostTagObjs, hostDefaultBranch, workflowVars>>

\* client.Git.CreateTag(ctx, owner, repository, githubTag)
createTag_CreateTag(p) ==
    /\ pc[p] = "createTag_CreateTag"
    /\ LET obj == [tag |-> req[p].tag, sha |-> ct[p].commitSHA]
       IN  \E fail \in BOOLEAN :
             IF fail
             THEN /\ calls' = [calls EXCEPT ![p] = Logged(p, "Git.CreateTag", obj, "err")]
                  /\ createTag_return(p, Wrap(HostErr, "failed to create tag"))
                  /\ UNCHANGED hostTagObjs
             ELSE /\ calls' = [calls EXCEPT ![p] = Logged(p, "Git.CreateTag", obj, "ok")]
                  /\ hostTagObjs' = hostTagObjs \cup {obj}
                  /\ pc' = [pc EXCEPT ![p] = "createTag_CreateRef"]
                  /\ UNCHANGED ct
    /\ UNCHANGED <<req, hostRefs, hostDefaultBranch, workflowVars>>

createTag_CreateRef_rollback(p) ==
    /\ pc[p] = "createTag_CreateRef"
    /\ LET tagRef == tagRefOf(req[p].tag)
           name == FullRef(tagRef)
           arg == [ref |-> tagRef, sha |-> ct[p].commitSHA]
       IN  \E fail \in BOOLEAN :
             IF fail \/ ~HostAcceptsRef(hostRefs, name)
             THEN /\ calls' = [calls EXCEPT ![p] =
                         Append(Logged(p, "Git.CreateRef", arg, IF fail THEN "err" ELSE "422"),
                                [op |-> "Git.DeleteTag", arg |-> req[p].tag, res |-> "ok"])]
                  /\ hostTagObjs' = {o \in hostTagObjs : o.tag # req[p].tag}
                  /\ createTag_return(p, Wrap(HostErr, "failed to create ref"))
                  /\ UNCHANGED hostRefs
             ELSE /\ calls' = [calls EXCEPT ![p] = Logged(p, "Git.CreateRef", arg, "ok")]
                  /\ hostRefs' = [hostRefs EXCEPT ![name] = ct[p].commitSHA]
                  /\ createTag_return(p, Nil)
                  /\ UNCHANGED hostTagObjs
    /\ UNCHANGED <<req, hostDefaultBranch, workflowVars>>

\* client.Git.CreateRef(ctx, owner, repository, refTag)
createTag_CreateRef(p) ==
    /\ pc[p] = "createTag_CreateRef"
    /\ LET tagRef == tagRefOf(req[p].tag)
           name == FullRef(tagRef)
           arg == [ref |-> tagRef, sha |-> ct[p].commitSHA]
       IN  \E fail \in BOOLEAN :
             IF fail \/ ~HostAcceptsRef(hostRefs, name)
             THEN /\ calls' = [calls EXCEPT ![p] =
                         Logged(p, "Git.CreateRef", arg, IF fail THEN "err" ELSE "422")]
                  /\ createTag_return(p, Wrap(HostErr, "failed to create ref"))
                  /\ UNCHANGED hostRefs
             ELSE /\ calls' = [calls EXCEPT ![p] = Logged(p, "Git.CreateRef", arg, "ok")]
                  /\ hostRefs' = [hostRefs EXCEPT ![name] = ct[p].commitSHA]
                  /\ createTag_return(p, Nil)
    /\ UNCHANGED <<req, hostTagObjs, hostDefaultBranch, workflowVars>>

createTag(p) ==
    \/ createTag_GetRefs(p)
    \/ createTag_Get(p)
    \/ createTag_GetRef(p)
    \/ createTag_GetCommit(p)
    \/ createTag_CreateTag(p)
    \/ createTag_CreateRef(p)

----------------------------------------------------------------------------
(* file names and file contents *)

RepoName == <<"plugin-x">>
HostRepos == {RepoName}

AssetBundle == <<"bundle", ".tar.gz">>
AssetBundle2 == <<"bundle2", ".tar.gz">>
AssetReadme == <<"README", ".txt">>
NoAsset == <<>>

\* path + ".sig"
SigOf(path) == path \o <<".sig">>

Platforms == {"linux-amd64", "darwin-amd64"}

\* a file of a bundle is <<directory, name tokens...>>; filepath.Base drops the directory
Base(path) == Tail(path)

\* strings.Contains(name, token)
Contains(name, token) == \E i \in 1..Len(name) : name[i] = token

BinaryPath(platform) == <<"server/dist/", "plugin-", platform>>

NoExecutables == [q \in {} |-> <<>>]
Manifest(ps) == [found |-> TRUE, server |-> TRUE, executables |-> [q \in ps |-> BinaryPath(q)]]
NoManifest == [found |-> FALSE, server |-> FALSE, executables |-> NoExecutables]
ManifestNoServer == [found |-> TRUE, server |-> FALSE, executables |-> NoExecutables]

\* a .tar.gz: root is "dir" (one directory holding the plugin) or "flat" (the plugin's
\* files are the root's entries)
Tar(root, manifest, files) ==
    [kind |-> "bundle", valid |-> TRUE, root |-> root, manifest |-> manifest, files |-> files]

NotATar == [kind |-> "bundle", valid |-> FALSE, root |-> "dir", manifest |-> NoManifest,
            files |-> {}]

BundleBoth == Tar("dir", Manifest(Platforms), {BinaryPath(q) : q \in Platforms})
BundleLinux == Tar("dir", Manifest({"linux-amd64"}), {BinaryPath("linux-amd64")})
BundleUnlisted == Tar("dir", Manifest({"linux-amd64"}), {BinaryPath(q) : q \in Platforms})
BundleFlat == Tar("flat", Manifest({"linux-amd64"}), {BinaryPath("linux-amd64")})
BundleIcon == Tar("dir", Manifest({"linux-amd64"}),
                  {BinaryPath("linux-amd64"), <<"assets/", "plugin-", "icon.svg">>})
BundleNoExecutables == Tar("dir", Manifest({}), {})
BundleNoServer == Tar("dir", ManifestNoServer, {})
BundleNoManifest == Tar("dir", NoManifest, {BinaryPath("linux-amd64")})

\* what a release asset's bytes can be
Bundles == {BundleBoth, BundleLinux, BundleUnlisted, BundleFlat, BundleIcon,
            BundleNoExecutables, BundleNoServer, BundleNoManifest, NotATar}

Signature(content, key) == [kind |-> "sig", of |-> content, key |-> key]
Symlink(target) == [kind |-> "link", to |-> target]

EmptyFiles == [n \in {} |-> NotATar]

\* the file system: files is name -> content
Exists(files, name) == name \in DOMAIN files
WriteFile(files, name, content) == (name :> content) @@ files
RemoveFile(files, name) == [n \in DOMAIN files \ {name} |-> files[n]]

NoFile == [kind |-> "absent"]

\* os.Open and read: symbolic links are followed
ReadFile(files, name) ==
    IF ~Exists(files, name) THEN NoFile
    ELSE IF files[name].kind # "link" THEN files[name]
    ELSE IF ~Exists(files, files[name].to) THEN NoFile
    ELSE IF files[files[name].to].kind # "link" THEN files[files[name].to]
    ELSE NoFile

----------------------------------------------------------------------------
(* releases on the source host *)

NoRelease == [exists |-> FALSE, prerelease |-> FALSE, assets |-> <<>>]
Release(assets) == [exists |-> TRUE, prerelease |-> FALSE, assets |-> assets]

SeqContains(seq, x) == \E i \in 1..Len(seq) : seq[i] = x

----------------------------------------------------------------------------
(* cutPluginCommandF, up to the start of the workflow *)

SemVers == {<<"1.0.0">>, <<"1.0.0", "-rc1">>, <<"2.0.0">>}

SemverParses_any(version) == TRUE

\* semver.Parse(tag[1:]) succeeds
SemverParses(version) == version \in SemVers

\* WriteErrorResponse(w, NewError(text, nil))
WriteErrorResponse(p, text) ==
    resp' = [resp EXCEPT ![p] = Append(@, [kind |-> "error", text |-> text])]

\* WriteEnrichedResponse(w, "Plugin Release Process", msg, ...)
WriteEnrichedResponse(p, text) ==
    resp' = [resp EXCEPT ![p] = Append(@, [kind |-> "message", text |-> text])]

cutPluginCommandF_validate(p) ==
    /\ pc[p] = "cutPluginCommandF"
    /\ LET tag == req[p].tag
           text == IF tag = <<>> THEN "Tag should not be empty"
                   ELSE IF Head(tag) # "v" THEN "Tag must start with leading 'v'"
                   ELSE IF ~SemverParses(Tail(tag))
                        THEN "Tag must adhere to semver after leading 'v'"
                   ELSE IF req[p].repo = <<>> THEN "Plugin Repository should not be empty"
                   ELSE ""
       IN  IF text # ""
           THEN /\ WriteErrorResponse(p, text)
                /\ pc' = [pc EXCEPT ![p] = "done"]
           ELSE /\ pc' = [pc EXCEPT ![p] = "checkRepo"]
                /\ UNCHANGED resp
    /\ UNCHANGED <<req, calls, tagVars, cp, fs, elapsed, posts, hostReleases, remoteFiles,
                   s3Objects, cfg>>

\* checkRepo: client.Search.Repositories(ctx, "repo:owner/repo", nil)
checkRepo(p) ==
    /\ pc[p] = "checkRepo"
    /\ \E fail \in BOOLEAN :
         /\ calls' = [calls EXCEPT ![p] =
                Logged(p, "Search.Repositories", req[p].repo, IF fail THEN "err" ELSE "ok")]
         /\ IF fail
            THEN /\ WriteErrorResponse(p, "failed to fetch github repo")
                 /\ pc' = [pc EXCEPT ![p] = "done"]
            ELSE IF req[p].repo \notin HostRepos
            THEN /\ WriteErrorResponse(p, "looks like this repository is not part of the org")
                 /\ pc' = [pc EXCEPT ![p] = "done"]
            ELSE /\ pc' = [pc EXCEPT ![p] = "createTag"]
                 /\ UNCHANGED resp
    /\ UNCHANGED <<req, tagVars, cp, fs, elapsed, posts, hostReleases, remoteFiles,
                   s3Objects, cfg>>

Refused_always(force) == TRUE

\* errors.Is(err, ErrTagExists): if !force, the command is refused
Refused(force) == ~force

\* the handler after createTag: refuse, or acknowledge and start cutPlugin in a goroutine
cutPluginCommandF_start(p) ==
    /\ pc[p] = "createTag_ret"
    /\ IF ErrorsIs(ct[p].ret, ErrTagExists)
       THEN IF Refused(req[p].force)
            THEN /\ WriteErrorResponse(p, "Tag already exists. Not generating any artifacts.")
                 /\ pc' = [pc EXCEPT ![p] = "done"]
                 /\ UNCHANGED cp
            ELSE /\ WriteEnrichedResponse(p, "Tag already exists. Waiting for the artifacts")
                 /\ pc' = [pc EXCEPT ![p] = "getPluginRelease"]
                 /\ cp' = [cp EXCEPT ![p].started = TRUE]
       ELSE IF ct[p].ret # Nil
            THEN /\ WriteErrorResponse(p, "createTag failed")
                 /\ pc' = [pc EXCEPT ![p] = "done"]
                 /\ UNCHANGED cp
            ELSE /\ WriteEnrichedResponse(p, "Tag created. Waiting for the artifacts")
                 /\ pc' = [pc EXCEPT ![p] = "getPluginRelease"]
                 /\ cp' = [cp EXCEPT ![p].started = TRUE]
    /\ UNCHANGED <<req, calls, tagVars, fs, elapsed, posts, hostReleases, remoteFiles,
                   s3Objects, cfg>>

----------------------------------------------------------------------------
(* cutPlugin: waiting for the release and its asset, download *)

\* the context deadline (pluginAssetTimeout), in polling intervals of 30 seconds
MaxPolls == 2

\* the temporary directories: the working directory of cutPlugin, and the directory a
\* step of createPlatformPlugins unpacks the bundle to (os.MkdirTemp("", "platform-plugin-*"))
WorkDir == "tmpFolder"
UnpackDir == "platform-plugin-*"

\* os.MkdirTemp succeeds
MkdirTemp(dirs, dir) == dirs \cup {dir}

RemoveAll_skip(dirs, dir) == dirs

\* defer os.RemoveAll(dir)
RemoveAll(dirs, dir) == dirs \ {dir}

\* findPlatformBinaries and createPlatformPlugin: the unpack directory is created, used
\* and removed by the deferred call when the function returns
UnpackDirUsed(dirs) == RemoveAll(MkdirTemp(dirs, UnpackDir), UnpackDir)

cutPlugin_return_swallow(p, err) ==
    /\ cp' = [cp EXCEPT ![p].err = Nil, ![p].returned = TRUE,
                        ![p].tmpFolder = IF @ = "created" THEN "removed" ELSE @,
                        ![p].tmpDirs = RemoveAll(@, WorkDir)]
    /\ fs' = [fs EXCEPT ![p] = EmptyFiles]
    /\ pc' = [pc EXCEPT ![p] = "cutPlugin_ret"]

\* return from cutPlugin; the deferred os.RemoveAll(tmpFolder) runs
cutPlugin_return(p, err) ==
    /\ cp' = [cp EXCEPT ![p].err = err, ![p].returned = TRUE,
                        ![p].tmpFolder = IF @ = "created" THEN "removed" ELSE @,
                        ![p].tmpDirs = RemoveAll(@, WorkDir)]
    /\ fs' = [fs EXCEPT ![p] = EmptyFiles]
    /\ pc' = [pc EXCEPT ![p] = "cutPlugin_ret"]

TimedOut == NewErr("timed out waiting for ok response")

ContextDone_never(e) == FALSE

\* case <-ctx.Done(): the deadline of context.WithTimeout(ctx, pluginAssetTimeout) has passed
ContextDone(e) == e >= MaxPolls

IsNotFound_any(res) == res # "ok"

\* errors.As(err, &gerr) && gerr.Response.StatusCode == http.StatusNotFound
IsNotFound(res) == res = "404"

\* getPluginRelease: one GetReleaseByTag of the polling loop
getPluginRelease_lookup(p) ==
    /\ pc[p] = "getPluginRelease"
    /\ LET release == hostReleases[req[p].tag]
       IN  \E fail \in BOOLEAN :
             LET res == IF fail THEN "err" ELSE IF release.exists THEN "ok" ELSE "404"
             IN  /\ calls' = [calls EXCEPT ![p] =
                        Logged(p, "Repositories.GetReleaseByTag", req[p].tag, res)]
                 /\ IF res # "ok" /\ ~IsNotFound(res)
                    THEN cutPlugin_return(p, Wrap(Wrap(HostErr, "failed to get release by tag"),
                                                  "failed to get plugin release"))
                    ELSE IF res = "ok"
                    THEN /\ cp' = [cp EXCEPT ![p].release = release]
                         /\ pc' = [pc EXCEPT ![p] =
                                IF req[p].preRelease THEN "markTagAsPreRelease"
                                ELSE "getPluginAsset"]
                         /\ UNCHANGED fs
                    ELSE /\ pc' = [pc EXCEPT ![p] = "getPluginRelease_wait"]
                         /\ UNCHANGED <<cp, fs>>
    /\ elapsed' = IF pc'[p] = "getPluginAsset" THEN [elapsed EXCEPT ![p] = 0] ELSE elapsed
    /\ UNCHANGED <<req, tagVars, resp, posts, hostReleases, remoteFiles, s3Objects, cfg>>

\* getPluginRelease: select on ctx.Done() and time.After(30 * time.Second)
getPluginRelease_wait(p) ==
    /\ pc[p] = "getPluginRelease_wait"
    /\ IF ~ContextDone(elapsed[p])
       THEN /\ elapsed' = [elapsed EXCEPT ![p] = IF @ < MaxPolls THEN @ + 1 ELSE @]
            /\ pc' = [pc EXCEPT ![p] = "getPluginRelease"]
            /\ UNCHANGED <<cp, fs>>
       ELSE /\ cutPlugin_return(p, Wrap(TimedOut, "failed to get plugin release"))
            /\ UNCHANGED elapsed
    /\ UNCHANGED <<req, calls, tagVars, resp, posts, hostReleases, remoteFiles, s3Objects, cfg>>

\* markTagAsPreRelease: GetReleaseByTag
markTagAsPreRelease_lookup(p) ==
    /\ pc[p] = "markTagAsPreRelease"
    /\ \E fail \in BOOLEAN :
         LET ok == ~fail /\ hostReleases[req[p].tag].exists
         IN  /\ calls' = [calls EXCEPT ![p] =
                    Logged(p, "Repositories.GetReleaseByTag", req[p].tag,
                           IF ok THEN "ok" ELSE "err")]
             /\ IF ok
                THEN /\ pc' = [pc EXCEPT ![p] = "markTagAsPreRelease_edit"]
                     /\ UNCHANGED <<cp, fs>>
                ELSE cutPlugin_return(p, Wrap(Wrap(HostErr, "failed to get release by tag"),
                                              "failed to mark release as pre-release"))
    /\ UNCHANGED <<req, tagVars, elapsed, resp, posts, hostReleases, remoteFiles, s3Objects,
                   cfg>>

markTagAsPreRelease_edit_ignoreError(p) ==
    /\ pc[p] = "markTagAsPreRelease_edit"
    /\ \E fail \in BOOLEAN :
         LET ok == ~fail /\ hostReleases[req[p].tag].exists
         IN  /\ calls' = [calls EXCEPT ![p] =
                    Logged(p, "Repositories.EditRelease", req[p].tag,
                           IF ok THEN "ok" ELSE "err")]
             /\ hostReleases' = IF ok THEN [hostReleases EXCEPT ![req[p].tag].prerelease = TRUE]
                                ELSE hostReleases
             /\ pc' = [pc EXCEPT ![p] = "getPluginAsset"]
             /\ elapsed' = [elapsed EXCEPT ![p] = 0]
             /\ UNCHANGED <<cp, fs>>
    /\ UNCHANGED <<req, tagVars, resp, posts, remoteFiles, s3Objects, cfg>>

\* markTagAsPreRelease: EditRelease with Prerelease = true
markTagAsPreRelease_edit(p) ==
    /\ pc[p] = "markTagAsPreRelease_edit"
    /\ \E fail \in BOOLEAN :
         LET ok == ~fail /\ hostReleases[req[p].tag].exists
         IN  /\ calls' = [calls EXCEPT ![p] =
                    Logged(p, "Repositories.EditRelease", req[p].tag,
                           IF ok THEN "ok" ELSE "err")]
             /\ IF ok
                THEN /\ hostReleases' = [hostReleases EXCEPT ![req[p].tag].prerelease = TRUE]
                     /\ pc' = [pc EXCEPT ![p] = "getPluginAsset"]
                     /\ elapsed' = [elapsed EXCEPT ![p] = 0]
                     /\ UNCHANGED <<cp, fs>>
                ELSE /\ cutPlugin_return(p, Wrap(Wrap(HostErr, "error while uploading to github."),
                                                 "failed to mark release as pre-release"))
                     /\ UNCHANGED <<hostReleases, elapsed>>
    /\ UNCHANGED <<req, tagVars, resp, posts, remoteFiles, s3Objects, cfg>>

\* a loop that returns the first asset whose name ends in .tar.gz
RECURSIVE ScanAssets_first(_, _, _, _)
ScanAssets_first(assets, i, assetName, found) ==
    IF i > Len(assets) THEN [asset |-> found, err |-> Nil]
    ELSE IF assetName # <<>>
         THEN IF assetName = assets[i]
              THEN [asset |-> assets[i], err |-> Nil]
              ELSE ScanAssets_first(assets, i + 1, assetName, found)
         ELSE IF HasSuffix(assets[i], <<".tar.gz">>)
              THEN [asset |-> assets[i], err |-> Nil]
              ELSE ScanAssets_first(assets, i + 1, assetName, found)

\* a loop that takes no notice of the asset name
RECURSIVE ScanAssets_unnamed(_, _, _, _)
ScanAssets_unnamed(assets, i, assetName, found) ==
    IF i > Len(assets) THEN [asset |-> found, err |-> Nil]
    ELSE IF HasSuffix(assets[i], <<".tar.gz">>)
         THEN IF found # NoAsset
              THEN [asset |-> NoAsset, err |-> NewErr("found unexpected file")]
              ELSE ScanAssets_unnamed(assets, i + 1, assetName, assets[i])
         ELSE ScanAssets_unnamed(assets, i + 1, assetName, found)

\* the loop of getPluginAsset over release.Assets, from index i on, with foundPluginAsset = found
RECURSIVE ScanAssets(_, _, _, _)
ScanAssets(assets, i, assetName, found) ==
    IF i > Len(assets) THEN [asset |-> found, err |-> Nil]
    ELSE IF assetName # <<>>
         THEN IF assetName = assets[i]
              THEN [asset |-> assets[i], err |-> Nil]
              ELSE ScanAssets(assets, i + 1, assetName, found)
         ELSE IF HasSuffix(assets[i], <<".tar.gz">>)
              THEN IF found # NoAsset
                   THEN [asset |-> NoAsset, err |-> NewErr("found unexpected file")]
                   ELSE ScanAssets(assets, i + 1, assetName, assets[i])
              ELSE ScanAssets(assets, i + 1, assetName, found)

\* getPluginAsset: one pass over the assets of the release it was given
getPluginAsset_scan(p) ==
    /\ pc[p] = "getPluginAsset"
    /\ LET r == ScanAssets(cp[p].release.assets, 1, req[p].assetName, NoAsset)
       IN  IF r.err # Nil
           THEN cutPlugin_return(p, Wrap(r.err, "failed to get plugin asset"))
           ELSE IF r.asset # NoAsset
           THEN /\ cp' = [cp EXCEPT ![p].asset = r.asset]
                /\ pc' = [pc EXCEPT ![p] = "MkdirTemp"]
                /\ UNCHANGED fs
           ELSE /\ pc' = [pc EXCEPT ![p] = "getPluginAsset_wait"]
                /\ UNCHANGED <<cp, fs>>
    /\ UNCHANGED <<req, calls, tagVars, elapsed, resp, posts, hostReleases, remoteFiles,
                   s3Objects, cfg>>

\* getPluginAsset: select on ctx.Done() and time.After(30 * time.Second)
getPluginAsset_wait(p) ==
    /\ pc[p] = "getPluginAsset_wait"
    /\ IF ~ContextDone(elapsed[p])
       THEN /\ elapsed' = [elapsed EXCEPT ![p] = IF @ < MaxPolls THEN @ + 1 ELSE @]
            /\ pc' = [pc EXCEPT ![p] = "getPluginAsset"]
            /\ UNCHANGED <<cp, fs>>
       ELSE /\ cutPlugin_return(p, Wrap(TimedOut, "failed to get plugin asset"))
            /\ UNCHANGED elapsed
    /\ UNCHANGED <<req, calls, tagVars, resp, posts, hostReleases, remoteFiles, s3Objects, cfg>>

\* tmpFolder, err := os.MkdirTemp("", pluginAsset.GetName())
cutPlugin_MkdirTemp(p) ==
    /\ pc[p] = "MkdirTemp"
    /\ \E fail \in BOOLEAN :
         IF fail
         THEN cutPlugin_return(p, Wrap(NewErr("mkdir"), "failed to create temp dir"))
         ELSE /\ cp' = [cp EXCEPT ![p].tmpFolder = "created",
                                  ![p].tmpDirs = MkdirTemp(@, WorkDir)]
              /\ pc' = [pc EXCEPT ![p] = "downloadAsset"]
              /\ UNCHANGED fs
    /\ UNCHANGED <<req, calls, tagVars, elapsed, resp, posts, hostReleases, remoteFiles,
                   s3Objects, cfg>>

\* downloadAsset: DownloadReleaseAsset, then the bytes are written to tmpFolder/<asset name>;
\* the asset has the bytes an earlier attempt downloaded
downloadAsset(p) ==
    /\ pc[p] = "downloadAsset"
    /\ \E fail \in BOOLEAN :
         IF fail
         THEN /\ calls' = [calls EXCEPT ![p] =
                     Logged(p, "Repositories.DownloadReleaseAsset", cp[p].asset, "err")]
              /\ cutPlugin_return(p, Wrap(Wrap(HostErr, "failed to fetch asset"),
                                          "failed to download asset"))
         ELSE \E bytes \in Bundles :
              /\ cp[p].downloaded # NoFile => bytes = cp[p].downloaded
              /\ calls' = [calls EXCEPT ![p] =
                     Logged(p, "Repositories.DownloadReleaseAsset", cp[p].asset, "ok")]
              /\ fs' = [fs EXCEPT ![p] = WriteFile(@, cp[p].asset, bytes)]
              /\ cp' = [cp EXCEPT ![p].githubPluginFilePath = cp[p].asset,
                                  ![p].downloaded = bytes]
              /\ pc' = [pc EXCEPT ![p] = "createPlatformPlugins"]
    /\ UNCHANGED <<req, tagVars, elapsed, resp, posts, hostReleases, remoteFiles, s3Objects,
                   cfg>>

----------------------------------------------------------------------------
(* createPlatformPlugins *)

UnpackErr == Wrap(Wrap(NewErr("exit status 1"),
                       "failed to decompress and extract to temporary directory"),
                  "failed to unpack plugin")

\* unpackPlugin succeeds on the bytes
Unpacks(content) == content.kind = "bundle" /\ content.valid

findPlatformBinaries_unchecked(content) ==
    IF ~Unpacks(content) THEN [bins |-> NoExecutables, err |-> UnpackErr]
    ELSE [bins |-> [q \in DOMAIN content.manifest.executables |->
                       Base(content.manifest.executables[q])],
          err |-> Nil]

\* findPlatformBinaries: platform -> file name of its binary, from the bundle's manifest
findPlatformBinaries(content) ==
    IF ~Unpacks(content) THEN [bins |-> NoExecutables, err |-> UnpackErr]
    ELSE IF ~content.manifest.found
         THEN [bins |-> NoExecutables, err |-> Wrap(NewErr("no manifest"), "failed to find manifest")]
    ELSE IF ~content.manifest.server
         THEN [bins |-> NoExecutables, err |-> NewErr("no server defined")]
    ELSE IF DOMAIN content.manifest.executables = {}
         THEN [bins |-> NoExecutables, err |-> NewErr("no executables defined")]
    ELSE [bins |-> [q \in DOMAIN content.manifest.executables |->
                       Base(content.manifest.executables[q])],
          err |-> Nil]

\* filepath.Glob(dir/pluginDir/server/dist/plugin-*) matches the file
IsDistPlugin(f) == f[1] = "server/dist/" /\ Len(f) >= 2 /\ f[2] = "plugin-"

\* createPlatformPlugin: unpack, drop the other platforms' binaries, pack to platformTarPath
createPlatformPlugin(files, pluginFilePath, binary, platformTarPath, cmdFails) ==
    LET src == ReadFile(files, pluginFilePath)
    IN  IF ~Unpacks(src) THEN [err |-> UnpackErr, files |-> files]
        ELSE IF src.root # "dir"
             THEN [err |-> Wrap(Nil, "error finding plugin directory"), files |-> files]
        ELSE IF cmdFails
             THEN [err |-> Wrap(NewErr("exit status 1"), "failed to exclude, tar and recompress"),
                   files |-> WriteFile(files, platformTarPath, NotATar)]
        ELSE [err |-> Nil,
              files |-> WriteFile(files, platformTarPath,
                            [src EXCEPT !.files =
                                {f \in src.files : ~IsDistPlugin(f) \/ HasSuffix(f, binary)}])]

\* archiveContains: the regular files of the archive whose base name contains the token
archiveContains(files, filePath, token) ==
    LET content == ReadFile(files, filePath)
    IN  IF ~Unpacks(content)
        THEN [found |-> {}, err |-> Wrap(NewErr("open or gzip"), "failed to open archive")]
        ELSE [found |-> {f \in content.files : Contains(Base(f), token)}, err |-> Nil]

\* filepath.Join(pluginFolder, fmt.Sprintf("%v-%v-%v.tar.gz", repositoryName, tag, platform))
PlatformTarPath(repo, tag, platform) == repo \o <<"-">> \o tag \o <<"-", platform, ".tar.gz">>

\* createPlatformPlugins: return nil, err; cutPlugin wraps the error and returns
createPlatformPlugins_fail(p, err) ==
    /\ cp' = [cp EXCEPT ![p].err = Wrap(err, "failed to create platform tars"),
                        ![p].returned = TRUE,
                        ![p].tmpFolder = IF @ = "created" THEN "removed" ELSE @,
                        ![p].tmpDirs = RemoveAll(UnpackDirUsed(@), WorkDir),
                        ![p].platformPluginFilePaths = <<>>]
    /\ fs' = [fs EXCEPT ![p] = EmptyFiles]
    /\ pc' = [pc EXCEPT ![p] = "cutPlugin_ret"]

\* createPlatformPlugins: findPlatformBinaries
createPlatformPlugins_find(p) ==
    /\ pc[p] = "createPlatformPlugins"
    /\ LET r == findPlatformBinaries(ReadFile(fs[p], cp[p].githubPluginFilePath))
       IN  IF r.err # Nil
           THEN createPlatformPlugins_fail(p, r.err)
           ELSE /\ cp' = [cp EXCEPT ![p].platformBinaries = r.bins, ![p].todo = DOMAIN r.bins,
                                    ![p].tmpDirs = UnpackDirUsed(@)]
                /\ pc' = [pc EXCEPT ![p] = "createPlatformPlugins_loop"]
                /\ UNCHANGED fs
    /\ UNCHANGED <<req, calls, tagVars, elapsed, resp, posts, hostReleases, remoteFiles,
                   s3Objects, cfg>>

LoopDone_first(todo, platform) == TRUE

\* createPlatformPlugins: the range over platformBinaries ends with this platform
LoopDone(todo, platform) == todo = {platform}

WrongBinary_anyMatch(found, expected) == \A f \in found : Base(f) # expected

\* len(found) != 1 || found[0] != platformBinaries[platform]
WrongBinary(found, expected) ==
    Cardinality(found) # 1 \/ \E f \in found : Base(f) # expected

\* createPlatformPlugins: one iteration of the loop over the platforms, in map order
createPlatformPlugins_platform(p) ==
    /\ pc[p] = "createPlatformPlugins_loop"
    /\ \E platform \in cp[p].todo, cmdFails \in BOOLEAN :
         LET binary == cp[p].platformBinaries[platform]
             platformTarPath == PlatformTarPath(req[p].repo, req[p].tag, platform)
             made == createPlatformPlugin(fs[p], cp[p].githubPluginFilePath, binary,
                                          platformTarPath, cmdFails)
             check == archiveContains(made.files, platformTarPath, "plugin-")
         IN  IF made.err # Nil
             THEN /\ createPlatformPlugins_fail(p, Wrap(made.err,
                                                        "failed to create platform tar for"))
                  /\ UNCHANGED calls
             ELSE IF check.err # Nil
             THEN /\ createPlatformPlugins_fail(p, Wrap(check.err,
                                                        "failed to check files in archive"))
                  /\ UNCHANGED calls
             ELSE IF WrongBinary(check.found, cp[p].platformBinaries[platform])
             THEN /\ createPlatformPlugins_fail(p, NewErr("found wrong platform binary"))
                  /\ calls' = [calls EXCEPT ![p] =
                         Logged(p, "archiveContains", platformTarPath, "wrong")]
             ELSE /\ fs' = [fs EXCEPT ![p] = made.files]
                  /\ calls' = [calls EXCEPT ![p] =
                         Logged(p, "archiveContains", platformTarPath, "ok")]
                  /\ cp' = [cp EXCEPT ![p].todo = @ \ {platform},
                                      ![p].tmpDirs = UnpackDirUsed(@),
                                      ![p].platformPluginFilePaths = Append(@, platformTarPath),
                                      ![p].filePaths =
                                          IF LoopDone(cp[p].todo, platform)
                                          THEN Append(Append(cp[p].platformPluginFilePaths,
                                                             platformTarPath),
                                                      cp[p].githubPluginFilePath)
                                          ELSE @]
                  /\ pc' = [pc EXCEPT ![p] =
                         IF LoopDone(cp[p].todo, platform) THEN "copyFilesToRemoteServer"
                         ELSE @]
    /\ UNCHANGED <<req, tagVars, elapsed, resp, posts, hostReleases, remoteFiles,
                   s3Objects, cfg>>

----------------------------------------------------------------------------
(* signPlugins *)

\* the embedded key (mattermostPluginPublicKey) and the keys a signature can be made with
TrustedKey == "mattermostPluginPublicKey"
SignerKeys == {TrustedKey, "another key"}

ParsableHostKeys == {"ssh-ed25519 AAAA"}
ReadableKeyFiles == {"id_rsa"}

NoClientConfig == [User |-> "", HostKeyCallback |-> <<"none">>]

getSSHClientConfig_insecure(username, path, certPath, hostPublicKey) ==
    IF path \notin ReadableKeyFiles
    THEN [config |-> NoClientConfig, err |-> Wrap(NewErr("open"), "failed to read key path")]
    ELSE IF hostPublicKey \notin ParsableHostKeys
    THEN [config |-> [User |-> username, HostKeyCallback |-> <<"InsecureIgnoreHostKey">>],
          err |-> Nil]
    ELSE [config |-> [User |-> username, HostKeyCallback |-> <<"FixedHostKey", hostPublicKey>>],
          err |-> Nil]

\* getSSHClientConfig: the client configuration, with the host key pinned
getSSHClientConfig(username, path, certPath, hostPublicKey) ==
    IF path \notin ReadableKeyFiles
    THEN [config |-> NoClientConfig, err |-> Wrap(NewErr("open"), "failed to read key path")]
    ELSE IF certPath # "" /\ certPath \notin ReadableKeyFiles
    THEN [config |-> NoClientConfig, err |-> Wrap(NewErr("open"), "failed to read cert path")]
    ELSE IF hostPublicKey = ""
    THEN [config |-> NoClientConfig, err |-> NewErr("missing host public key")]
    ELSE IF hostPublicKey \notin ParsableHostKeys
    THEN [config |-> NoClientConfig,
          err |-> Wrap(NewErr("no key found"), "failed parse host public key")]
    ELSE [config |-> [User |-> username, HostKeyCallback |-> <<"FixedHostKey", hostPublicKey>>],
          err |-> Nil]

CfgClientConfig ==
    getSSHClientConfig(cfg.PluginSigningSSHUser, cfg.PluginSigningSSHKeyPath,
                       cfg.PluginSigningSSHPublicCertPath, cfg.PluginSigningSSHHostPublicKey)

\* getPluginSigningSftpClient: the configuration, then ssh.Dial and sftp.NewClient
getPluginSigningSftpClient(outcome) ==
    LET c == CfgClientConfig
    IN  IF c.err # Nil
        THEN [dialed |-> FALSE, config |-> c.config,
              err |-> Wrap(c.err, "failed to setup client config")]
        ELSE IF outcome = "dial fails"
        THEN [dialed |-> TRUE, config |-> c.config,
              err |-> Wrap(HostErr, "failed to setup client config")]
        ELSE IF outcome = "sftp fails"
        THEN [dialed |-> TRUE, config |-> c.config,
              err |-> Wrap(HostErr, "failed to setup sftp client")]
        ELSE [dialed |-> TRUE, config |-> c.config, err |-> Nil]

DialOutcomes == {"ok", "dial fails", "sftp fails"}

\* the calls of p with the connection attempt of getPluginSigningSftpClient added
WithDial(p, client) ==
    IF client.dialed
    THEN Logged(p, "ssh.Dial", client.config.HostKeyCallback,
                IF client.err = Nil THEN "ok" ELSE "err")
    ELSE calls[p]

ServerPath_perFolder(filePath) == <<"/tmp/", "tmpFolder/">> \o filePath

\* filepath.Join("/tmp", filepath.Base(filePath))
ServerPath(filePath) == <<"/tmp/">> \o filePath

\* fmt.Sprintf("/opt/plugin-signer/output/%s.sig", filepath.Base(remoteFilePath))
RemoteSignaturePath(remoteFilePath) ==
    <<"/opt/plugin-signer/output/">> \o Tail(remoteFilePath) \o <<".sig">>

signPlugins_next_removeFirst(stage) ==
    CASE stage = "copyFilesToRemoteServer" -> "signFilesOnRemoteServer"
      [] stage = "signFilesOnRemoteServer" -> "copyFilesFromRemoteServer"
      [] stage = "copyFilesFromRemoteServer" -> "removeFilesFromRemoteServer"
      [] stage = "removeFilesFromRemoteServer" -> "verifySignatures"
      [] stage = "verifySignatures" -> "uploadFilesToGithub"

signPlugins_next_removeBeforeFetch(stage) ==
    CASE stage = "copyFilesToRemoteServer" -> "signFilesOnRemoteServer"
      [] stage = "signFilesOnRemoteServer" -> "removeFilesFromRemoteServer"
      [] stage = "removeFilesFromRemoteServer" -> "copyFilesFromRemoteServer"
      [] stage = "copyFilesFromRemoteServer" -> "verifySignatures"
      [] stage = "verifySignatures" -> "uploadFilesToGithub"

signPlugins_next_unverified(stage) ==
    CASE stage = "copyFilesToRemoteServer" -> "signFilesOnRemoteServer"
      [] stage = "signFilesOnRemoteServer" -> "copyFilesFromRemoteServer"
      [] stage = "copyFilesFromRemoteServer" -> "removeFilesFromRemoteServer"
      [] stage = "verifySignatures" -> "removeFilesFromRemoteServer"
      [] stage = "removeFilesFromRemoteServer" -> "uploadFilesToGithub"

\* signPlugins: the step that follows each step; after the last one signPlugins returns
\* nil and cutPlugin goes on to uploadFilesToGithub
signPlugins_next(stage) ==
    CASE stage = "copyFilesToRemoteServer" -> "signFilesOnRemoteServer"
      [] stage = "signFilesOnRemoteServer" -> "copyFilesFromRemoteServer"
      [] stage = "copyFilesFromRemoteServer" -> "verifySignatures"
      [] stage = "verifySignatures" -> "removeFilesFromRemoteServer"
      [] stage = "removeFilesFromRemoteServer" -> "uploadFilesToGithub"

\* signPlugins returns err to cutPlugin, which returns it wrapped
signPlugins_return(p, err, msg) ==
    cutPlugin_return(p, Wrap(Wrap(err, msg), "failed to sign plugin tars"))

\* the loop of a stage moves on to its next file, or the stage ends
NextFile(p, list, next) ==
    pc' = [pc EXCEPT ![p] = IF cp[p].i < Len(list) THEN @ ELSE next]

copyFilesToRemoteServer_connect(p) ==
    /\ pc[p] = "copyFilesToRemoteServer"
    /\ \E outcome \in DialOutcomes :
         LET client == getPluginSigningSftpClient(outcome)
         IN  /\ calls' = [calls EXCEPT ![p] = WithDial(p, client)]
             /\ IF client.err # Nil
                THEN signPlugins_return(p, Wrap(client.err, "failed to get sftp client"),
                                        "error while copying files")
                ELSE /\ cp' = [cp EXCEPT ![p].i = 1]
                     /\ pc' = [pc EXCEPT ![p] = "copyFilesToRemoteServer_loop"]
                     /\ UNCHANGED fs
    /\ UNCHANGED <<req, tagVars, elapsed, resp, posts, hostReleases, remoteFiles, s3Objects,
                   cfg>>

\* copyFilesToRemoteServer: os.Open, sftp.Create(serverPath), srcFile.ReadFrom(f)
copyFilesToRemoteServer_file(p) ==
    /\ pc[p] = "copyFilesToRemoteServer_loop"
    /\ LET filePath == cp[p].filePaths[cp[p].i]
           serverPath == ServerPath(filePath)
           content == ReadFile(fs[p], filePath)
       IN  \E outcome \in {"ok", "create fails", "copy fails"} :
             IF content = NoFile
             THEN /\ signPlugins_return(p, Wrap(NewErr("open"), "failed to open file"),
                                        "error while copying files")
                  /\ UNCHANGED <<calls, remoteFiles>>
             ELSE IF outcome = "create fails"
             THEN /\ calls' = [calls EXCEPT ![p] = Logged(p, "sftp.Create", serverPath, "err")]
                  /\ signPlugins_return(p, Wrap(HostErr, "failed to create remote file"),
                                        "error while copying files")
                  /\ UNCHANGED remoteFiles
             ELSE IF outcome = "copy fails"
             THEN /\ calls' = [calls EXCEPT ![p] = Logged(p, "sftp.Create", serverPath, "cut")]
                  /\ remoteFiles' = WriteFile(remoteFiles, serverPath, NotATar)
                  /\ signPlugins_return(p, Wrap(HostErr, "failed to read from file"),
                                        "error while copying files")
             ELSE /\ calls' = [calls EXCEPT ![p] = Logged(p, "sftp.Create", serverPath, "ok")]
                  /\ remoteFiles' = WriteFile(remoteFiles, serverPath, content)
                  /\ cp' = [cp EXCEPT ![p].remotePaths = Append(@, serverPath),
                                      ![p].i = IF @ < Len(cp[p].filePaths) THEN @ + 1 ELSE 1]
                  /\ NextFile(p, cp[p].filePaths, signPlugins_next("copyFilesToRemoteServer"))
                  /\ UNCHANGED fs
    /\ UNCHANGED <<req, tagVars, elapsed, resp, posts, hostReleases, s3Objects, cfg>>

\* signFilesOnRemoteServer: getSSHClientConfig, sshClient.SshConfig = clientConfig
signFilesOnRemoteServer_config(p) ==
    /\ pc[p] = "signFilesOnRemoteServer"
    /\ LET c == CfgClientConfig
       IN  IF c.err # Nil
           THEN signPlugins_return(p, Wrap(c.err, "failed to setup client config"),
                                   "error while signing files")
           ELSE /\ cp' = [cp EXCEPT ![p].i = 1, ![p].SshConfig = c.config]
                /\ pc' = [pc EXCEPT ![p] = "signFilesOnRemoteServer_loop"]
                /\ UNCHANGED fs
    /\ UNCHANGED <<req, calls, tagVars, elapsed, resp, posts, hostReleases, remoteFiles,
                   s3Objects, cfg>>

\* signFilesOnRemoteServer: sshClient.Run("sudo -u signer /opt/plugin-signer/sign_plugin.sh
\* <remoteFilePath>"), which connects with sshClient.SshConfig; the signing host signs
\* the staged file with its key, or leaves a signature of other bytes, or exits without a
\* signature, or fails
signFilesOnRemoteServer_file(p) ==
    /\ pc[p] = "signFilesOnRemoteServer_loop"
    /\ LET remoteFilePath == cp[p].remotePaths[cp[p].i]
           arg == [cmd |-> remoteFilePath, HostKeyCallback |-> cp[p].SshConfig.HostKeyCallback]
       IN  \E outcome \in SignerKeys \cup {"stale", "nothing written", "fails"} :
             IF outcome = "fails"
             THEN /\ calls' = [calls EXCEPT ![p] = Logged(p, "sshClient.Run", arg, "err")]
                  /\ signPlugins_return(p, Wrap(HostErr, "failed to run signer script"),
                                        "error while signing files")
                  /\ UNCHANGED remoteFiles
             ELSE /\ outcome \in SignerKeys => Exists(remoteFiles, remoteFilePath)
                  /\ calls' = [calls EXCEPT ![p] = Logged(p, "sshClient.Run", arg, "ok")]
                  /\ remoteFiles' =
                         IF outcome \in SignerKeys
                         THEN WriteFile(remoteFiles, RemoteSignaturePath(remoteFilePath),
                                        Signature(remoteFiles[remoteFilePath], outcome))
                         ELSE IF outcome = "stale"
                         THEN WriteFile(remoteFiles, RemoteSignaturePath(remoteFilePath),
                                        Signature(NotATar, TrustedKey))
                         ELSE remoteFiles
                  /\ cp' = [cp EXCEPT ![p].remoteSignaturePaths =
                                          Append(@, RemoteSignaturePath(remoteFilePath)),
                                      ![p].i = IF @ < Len(cp[p].remotePaths) THEN @ + 1 ELSE 1]
                  /\ NextFile(p, cp[p].remotePaths, signPlugins_next("signFilesOnRemoteServer"))
                  /\ UNCHANGED fs
    /\ UNCHANGED <<req, tagVars, elapsed, resp, posts, hostReleases, s3Objects, cfg>>

copyFilesFromRemoteServer_connect(p) ==
    /\ pc[p] = "copyFilesFromRemoteServer"
    /\ \E outcome \in DialOutcomes :
         LET client == getPluginSigningSftpClient(outcome)
         IN  /\ calls' = [calls EXCEPT ![p] = WithDial(p, client)]
             /\ IF client.err # Nil
                THEN signPlugins_return(p, Wrap(client.err, "failed to get sftp client"),
                                        "error while copying remote files")
                ELSE /\ pc' = [pc EXCEPT ![p] = "copyFilesFromRemoteServer_loop"]
                     /\ UNCHANGED <<cp, fs>>
    /\ UNCHANGED <<req, tagVars, elapsed, resp, posts, hostReleases, remoteFiles, s3Objects,
                   cfg>>

\* copyFilesFromRemoteServer: sftp.Open(remoteFile), os.Create(destination), srcFile.WriteTo
copyFilesFromRemoteServer_file(p) ==
    /\ pc[p] = "copyFilesFromRemoteServer_loop"
    /\ LET remoteFile == cp[p].remoteSignaturePaths[cp[p].i]
           destination == Tail(remoteFile)
       IN  \E fail \in BOOLEAN :
             IF fail \/ ~Exists(remoteFiles, remoteFile)
             THEN /\ calls' = [calls EXCEPT ![p] = Logged(p, "sftp.Open", remoteFile, "err")]
                  /\ signPlugins_return(p, Wrap(HostErr, "failed to open remote file"),
                                        "error while copying remote files")
             ELSE /\ calls' = [calls EXCEPT ![p] = Logged(p, "sftp.Open", remoteFile, "ok")]
                  /\ fs' = [fs EXCEPT ![p] = WriteFile(@, destination, remoteFiles[remoteFile])]
                  /\ cp' = [cp EXCEPT ![p].i =
                                IF @ < Len(cp[p].remoteSignaturePaths) THEN @ + 1 ELSE 1]
                  /\ NextFile(p, cp[p].remoteSignaturePaths,
                              signPlugins_next("copyFilesFromRemoteServer"))
    /\ UNCHANGED <<req, tagVars, elapsed, resp, posts, hostReleases, remoteFiles, s3Objects,
                   cfg>>

CheckDetachedSignature_never(key, signed, signature) == FALSE

CheckDetachedSignature_anyKey(key, signed, signature) ==
    signature.kind = "sig" /\ signature.of = signed

\* openpgp.CheckDetachedSignature(keyring, signedFile, signatureFile) returns no error
CheckDetachedSignature(key, signed, signature) ==
    signature.kind = "sig" /\ signature.of = signed /\ signature.key = key

\* verifySignatures: one iteration of the loop over pluginFilePaths
verifySignatures_file(p) ==
    /\ pc[p] = "verifySignatures"
    /\ LET pluginFilePath == cp[p].filePaths[cp[p].i]
           signed == ReadFile(fs[p], pluginFilePath)
           signature == ReadFile(fs[p], SigOf(pluginFilePath))
           arg == [file |-> pluginFilePath, signed |-> signed, signature |-> signature]
       IN  IF signed = NoFile
           THEN /\ signPlugins_return(p, Wrap(NewErr("open"), "cannot read signed file"),
                                      "failed signature verification")
                /\ UNCHANGED calls
           ELSE IF signature = NoFile
           THEN /\ signPlugins_return(p, Wrap(NewErr("open"), "cannot read signature file"),
                                      "failed signature verification")
                /\ UNCHANGED calls
           ELSE IF ~CheckDetachedSignature(TrustedKey, signed, signature)
           THEN /\ calls' = [calls EXCEPT ![p] =
                       Logged(p, "openpgp.CheckDetachedSignature", arg, "err")]
                /\ signPlugins_return(p, Wrap(NewErr("openpgp: invalid signature"),
                                              "error while checking the signature"),
                                      "failed signature verification")
           ELSE /\ calls' = [calls EXCEPT ![p] =
                       Logged(p, "openpgp.CheckDetachedSignature", arg, "ok")]
                /\ cp' = [cp EXCEPT ![p].i = IF @ < Len(cp[p].filePaths) THEN @ + 1 ELSE 1]
                /\ NextFile(p, cp[p].filePaths, signPlugins_next("verifySignatures"))
                /\ UNCHANGED fs
    /\ UNCHANGED <<req, tagVars, elapsed, resp, posts, hostReleases, remoteFiles, s3Objects,
                   cfg>>

removeFilesFromRemoteServer_connect(p) ==
    /\ pc[p] = "removeFilesFromRemoteServer"
    /\ \E outcome \in DialOutcomes :
         LET client == getPluginSigningSftpClient(outcome)
         IN  /\ calls' = [calls EXCEPT ![p] = WithDial(p, client)]
             /\ IF client.err # Nil
                THEN signPlugins_return(p, Wrap(client.err, "failed to get sftp client"),
                                        "failed to remove files from remote server")
                ELSE /\ pc' = [pc EXCEPT ![p] = "removeFilesFromRemoteServer_loop"]
                     /\ UNCHANGED <<cp, fs>>
    /\ UNCHANGED <<req, tagVars, elapsed, resp, posts, hostReleases, remoteFiles, s3Objects,
                   cfg>>

\* removeFilesFromRemoteServer: sftp.Remove(remoteFile)
removeFilesFromRemoteServer_file(p) ==
    /\ pc[p] = "removeFilesFromRemoteServer_loop"
    /\ LET remoteFile == cp[p].remotePaths[cp[p].i]
       IN  \E fail \in BOOLEAN :
             IF fail \/ ~Exists(remoteFiles, remoteFile)
             THEN /\ calls' = [calls EXCEPT ![p] = Logged(p, "sftp.Remove", remoteFile, "err")]
                  /\ signPlugins_return(p, Wrap(HostErr, "failed to remove"),
                                        "failed to remove files from remote server")
                  /\ UNCHANGED remoteFiles
             ELSE /\ calls' = [calls EXCEPT ![p] = Logged(p, "sftp.Remove", remoteFile, "ok")]
                  /\ remoteFiles' = RemoveFile(remoteFiles, remoteFile)
                  /\ cp' = [cp EXCEPT ![p].i = IF @ < Len(cp[p].remotePaths) THEN @ + 1 ELSE 1]
                  /\ NextFile(p, cp[p].remotePaths, signPlugins_next("removeFilesFromRemoteServer"))
                  /\ UNCHANGED fs
    /\ UNCHANGED <<req, tagVars, elapsed, resp, posts, hostReleases, s3Objects, cfg>>

signPlugins(p) ==
    \/ copyFilesToRemoteServer_connect(p)
    \/ copyFilesToRemoteServer_file(p)
    \/ signFilesOnRemoteServer_config(p)
    \/ signFilesOnRemoteServer_file(p)
    \/ copyFilesFromRemoteServer_connect(p)
    \/ copyFilesFromRemoteServer_file(p)
    \/ verifySignatures_file(p)
    \/ removeFilesFromRemoteServer_connect(p)
    \/ removeFilesFromRemoteServer_file(p)

----------------------------------------------------------------------------
(* cutPlugin: publication, and the goroutine's last message *)

\* uploadFilesToGithub returns err to cutPlugin, which returns it wrapped
uploadFilesToGithub_return(p, err) ==
    cutPlugin_return(p, Wrap(err, "failed to upload files to github"))

\* uploadFilesToGithub: GetReleaseByTag
uploadFilesToGithub_GetReleaseByTag(p) ==
    /\ pc[p] = "uploadFilesToGithub"
    /\ \E fail \in BOOLEAN :
         LET ok == ~fail /\ hostReleases[req[p].tag].exists
         IN  /\ calls' = [calls EXCEPT ![p] =
                    Logged(p, "Repositories.GetReleaseByTag", req[p].tag,
                           IF ok THEN "ok" ELSE "err")]
             /\ IF ok
                THEN /\ pc' = [pc EXCEPT ![p] = "getReleaseAsset"]
                     /\ UNCHANGED <<cp, fs>>
                ELSE uploadFilesToGithub_return(p, Wrap(HostErr, "failed to get release by tag"))
    /\ UNCHANGED <<req, tagVars, elapsed, resp, posts, hostReleases, remoteFiles, s3Objects,
                   cfg>>

uploadFilesToGithub_next_keep(found) == "UploadReleaseAsset"

\* uploadFilesToGithub: if err == nil { DeleteReleaseAsset(asset.GetID()) }, then upload
uploadFilesToGithub_next(found) ==
    IF found THEN "DeleteReleaseAsset" ELSE "UploadReleaseAsset"

\* uploadFilesToGithub: os.Open(filePath), then getReleaseAsset (ListReleaseAssets); an
\* error of getReleaseAsset means "no existing asset"
uploadFilesToGithub_getReleaseAsset(p) ==
    /\ pc[p] = "getReleaseAsset"
    /\ LET filePath == SigOf(cp[p].githubPluginFilePath)
       IN  IF ReadFile(fs[p], filePath) = NoFile
           THEN /\ uploadFilesToGithub_return(p, Wrap(NewErr("open"),
                                                      "failed to open file to upload"))
                /\ UNCHANGED calls
           ELSE \E fail \in BOOLEAN :
                  LET found == ~fail /\ SeqContains(hostReleases[req[p].tag].assets, filePath)
                  IN  /\ calls' = [calls EXCEPT ![p] =
                             Logged(p, "Repositories.ListReleaseAssets", filePath,
                                    IF fail THEN "err" ELSE IF found THEN "found" ELSE "none")]
                      /\ pc' = [pc EXCEPT ![p] = uploadFilesToGithub_next(found)]
                      /\ UNCHANGED <<cp, fs>>
    /\ UNCHANGED <<req, tagVars, elapsed, resp, posts, hostReleases, remoteFiles, s3Objects,
                   cfg>>

\* the sequence without its elements equal to x
RECURSIVE Without(_, _)
Without(seq, x) ==
    IF seq = <<>> THEN <<>>
    ELSE IF Head(seq) = x THEN Without(Tail(seq), x)
    ELSE <<Head(seq)>> \o Without(Tail(seq), x)

\* uploadFilesToGithub: DeleteReleaseAsset of the asset found
uploadFilesToGithub_DeleteReleaseAsset(p) ==
    /\ pc[p] = "DeleteReleaseAsset"
    /\ LET assetName == SigOf(cp[p].githubPluginFilePath)
       IN  \E fail \in BOOLEAN :
             /\ calls' = [calls EXCEPT ![p] =
                    Logged(p, "Repositories.DeleteReleaseAsset", assetName,
                           IF fail THEN "err" ELSE "ok")]
             /\ IF fail
                THEN /\ uploadFilesToGithub_return(p, Wrap(HostErr, "failed to remove asset"))
                     /\ UNCHANGED hostReleases
                ELSE /\ hostReleases' =
                            [hostReleases EXCEPT ![req[p].tag].assets = Without(@, assetName)]
                     /\ pc' = [pc EXCEPT ![p] = "UploadReleaseAsset"]
                     /\ UNCHANGED <<cp, fs>>
    /\ UNCHANGED <<req, tagVars, elapsed, resp, posts, remoteFiles, s3Objects, cfg>>

\* uploadFilesToGithub: UploadReleaseAsset; the host refuses a name the release has
uploadFilesToGithub_UploadReleaseAsset(p) ==
    /\ pc[p] = "UploadReleaseAsset"
    /\ LET filePath == SigOf(cp[p].githubPluginFilePath)
           arg == [name |-> filePath, content |-> ReadFile(fs[p], filePath)]
       IN  \E fail \in BOOLEAN :
             IF fail \/ SeqContains(hostReleases[req[p].tag].assets, filePath)
             THEN /\ calls' = [calls EXCEPT ![p] =
                         Logged(p, "Repositories.UploadReleaseAsset", arg, "err")]
                  /\ uploadFilesToGithub_return(p, Wrap(HostErr,
                                                        "error while uploading to github."))
                  /\ UNCHANGED hostReleases
             ELSE /\ calls' = [calls EXCEPT ![p] =
                         Logged(p, "Repositories.UploadReleaseAsset", arg, "ok")]
                  /\ hostReleases' =
                         [hostReleases EXCEPT ![req[p].tag].assets = Append(@, filePath)]
                  /\ pc' = [pc EXCEPT ![p] = "Symlink"]
                  /\ UNCHANGED <<cp, fs>>
    /\ UNCHANGED <<req, tagVars, elapsed, resp, posts, remoteFiles, s3Objects, cfg>>

\* fmt.Sprintf("%v-%v.tar.gz", repositoryName, tag)
S3PluginFilepath(repo, tag) == repo \o <<"-">> \o tag \o <<".tar.gz">>

WithSignatures_none(paths) == paths

\* s3Bucket: the two duplicates, then each platform file and its signature
RECURSIVE WithSignatures(_)
WithSignatures(paths) ==
    IF paths = <<>> THEN <<>>
    ELSE <<Head(paths), SigOf(Head(paths))>> \o WithSignatures(Tail(paths))

\* os.Symlink(githubPluginFilePath, s3PluginFilepath)
cutPlugin_Symlink(p) ==
    /\ pc[p] = "Symlink"
    /\ LET s3PluginFilepath == S3PluginFilepath(req[p].repo, req[p].tag)
       IN  \E fail \in BOOLEAN :
             IF fail \/ Exists(fs[p], s3PluginFilepath)
             THEN cutPlugin_return(p, Wrap(NewErr("symlink"), "failed to duplicate plugin file"))
             ELSE /\ fs' = [fs EXCEPT ![p] = WriteFile(@, s3PluginFilepath,
                                                       Symlink(cp[p].githubPluginFilePath))]
                  /\ pc' = [pc EXCEPT ![p] = "Symlink_sig"]
                  /\ UNCHANGED cp
    /\ UNCHANGED <<req, calls, tagVars, elapsed, resp, posts, hostReleases, remoteFiles,
                   s3Objects, cfg>>

\* os.Symlink(githubPluginSignatureFilePath, s3PluginSignatureFilepath); s3Bucket is built
cutPlugin_Symlink_sig(p) ==
    /\ pc[p] = "Symlink_sig"
    /\ LET s3PluginFilepath == S3PluginFilepath(req[p].repo, req[p].tag)
           s3PluginSignatureFilepath == SigOf(s3PluginFilepath)
       IN  \E fail \in BOOLEAN :
             IF fail \/ Exists(fs[p], s3PluginSignatureFilepath)
             THEN cutPlugin_return(p, Wrap(NewErr("symlink"),
                                           "failed to duplicate signature file"))
             ELSE /\ fs' = [fs EXCEPT ![p] =
                         WriteFile(@, s3PluginSignatureFilepath,
                                   Symlink(SigOf(cp[p].githubPluginFilePath)))]
                  /\ cp' = [cp EXCEPT ![p].s3Bucket =
                                <<s3PluginFilepath, s3PluginSignatureFilepath>>
                                \o WithSignatures(cp[p].platformPluginFilePaths),
                                      ![p].i = 1]
                  /\ pc' = [pc EXCEPT ![p] = "uploadToS3"]
    /\ UNCHANGED <<req, calls, tagVars, elapsed, resp, posts, hostReleases, remoteFiles,
                   s3Objects, cfg>>

\* uploadToS3: one iteration of the loop over s3Bucket; after the last file cutPlugin
\* returns nil
uploadToS3_file(p) ==
    /\ pc[p] = "uploadToS3"
    /\ LET filePath == cp[p].s3Bucket[cp[p].i]
           content == ReadFile(fs[p], filePath)
           key == <<"release/">> \o filePath
           arg == [name |-> key, content |-> content]
       IN  \E fail \in BOOLEAN :
             IF content = NoFile
             THEN /\ cutPlugin_return(p, Wrap(Wrap(NewErr("open"), "failed to open file"),
                                              "failed to upload to s3"))
                  /\ UNCHANGED <<calls, s3Objects>>
             ELSE IF fail
             THEN /\ calls' = [calls EXCEPT ![p] = Logged(p, "uploader.Upload", arg, "err")]
                  /\ cutPlugin_return(p, Wrap(Wrap(HostErr, "failed to upload file"),
                                              "failed to upload to s3"))
                  /\ UNCHANGED s3Objects
             ELSE /\ calls' = [calls EXCEPT ![p] = Logged(p, "uploader.Upload", arg, "ok")]
                  /\ s3Objects' = WriteFile(s3Objects, key, content)
                  /\ IF cp[p].i < Len(cp[p].s3Bucket)
                     THEN /\ cp' = [cp EXCEPT ![p].i = @ + 1]
                          /\ UNCHANGED <<pc, fs>>
                     ELSE cutPlugin_return(p, Nil)
    /\ UNCHANGED <<req, tagVars, elapsed, resp, posts, hostReleases, remoteFiles, cfg>>

cutPluginFailed_never(err) == FALSE

\* if err := cutPlugin(...); err != nil
cutPluginFailed(err) == err # Nil

\* the goroutine of cutPluginCommandF after cutPlugin: the failure message, or
\* getReleaseByTag for the link and the success message, sent with PostExtraMessages
cutPluginCommandF_post(p) ==
    /\ pc[p] = "cutPlugin_ret"
    /\ \E fail \in BOOLEAN :
         IF cutPluginFailed(cp[p].err)
         THEN /\ posts' = [posts EXCEPT ![p] = Append(@, [kind |-> "error", err |-> cp[p].err,
                                                         releaseURL |-> FALSE])]
              /\ UNCHANGED calls
         ELSE LET ok == ~fail /\ hostReleases[req[p].tag].exists
              IN  /\ calls' = [calls EXCEPT ![p] =
                         Logged(p, "Repositories.GetReleaseByTag", req[p].tag,
                                IF ok THEN "ok" ELSE "err")]
                  /\ posts' = [posts EXCEPT ![p] = Append(@, [kind |-> "success", err |-> Nil,
                                                             releaseURL |-> ok])]
    /\ pc' = [pc EXCEPT ![p] = "done"]
    /\ UNCHANGED <<req, tagVars, cp, fs, elapsed, resp, hostReleases, remoteFiles, s3Objects,
                   cfg>>

----------------------------------------------------------------------------
(* the continuous-integration build, which publishes the release the workflow waits for *)

Polling(p) == pc[p] \in {"getPluginRelease_wait", "getPluginAsset_wait"}

ReleaseAssetLists ==
    {<<>>, <<AssetBundle>>, <<AssetReadme, AssetBundle>>, <<AssetBundle, AssetBundle2>>,
     <<AssetBundle, SigOf(AssetBundle)>>}

\* the build creates the release of a tag while a workflow waits for it
CI_CreateRelease ==
    /\ \E p \in Procs : Polling(p)
    /\ \E t \in HostTagNames, assets \in ReleaseAssetLists :
         /\ ~hostReleases[t].exists
         /\ \E p \in Procs : Polling(p) /\ req[p].tag = t
         /\ hostReleases' = [hostReleases EXCEPT ![t] = Release(assets)]
    /\ UNCHANGED <<pc, req, calls, tagVars, cp, fs, elapsed, resp, posts, remoteFiles,
                   s3Objects, cfg>>

\* the build uploads the bundle to a release that has none yet
CI_UploadAsset ==
    /\ \E p \in Procs :
         /\ Polling(p)
         /\ hostReleases[req[p].tag].exists
         /\ hostReleases[req[p].tag].assets = <<>>
         /\ hostReleases' = [hostReleases EXCEPT ![req[p].tag].assets = <<AssetBundle>>]
    /\ UNCHANGED <<pc, req, calls, tagVars, cp, fs, elapsed, resp, posts, remoteFiles,
                   s3Objects, cfg>>

----------------------------------------------------------------------------
(* initial states *)

ReqTags == {TagV1, TagV1rc}
ReqCommits == {"", "c2", "bad"}

IdleReq == [tag |-> <<>>, repo |-> <<>>, commitSHA |-> "", assetName |-> <<>>,
            force |-> FALSE, preRelease |-> FALSE, attempt |-> 1]
IdleCt == [commitSHA |-> "", branch |-> "", refs |-> {}, looked |-> FALSE,
           ret |-> Nil, done |-> FALSE]
IdleCp == [started |-> FALSE, release |-> NoRelease, asset |-> NoAsset, tmpFolder |-> "none",
           tmpDirs |-> {},
           githubPluginFilePath |-> <<>>, downloaded |-> NoFile,
           platformBinaries |-> NoExecutables, todo |-> {}, platformPluginFilePaths |-> <<>>,
           filePaths |-> <<>>, remotePaths |-> <<>>, remoteSignaturePaths |-> <<>>, s3Bucket |-> <<>>,
           i |-> 0,
           SshConfig |-> NoClientConfig,
           err |-> Nil, returned |-> FALSE]

Configs ==
    [PluginSigningSSHUser : {"signer-client"}, PluginSigningSSHKeyPath : {"id_rsa", "missing"},
     PluginSigningSSHPublicCertPath : {""},
     PluginSigningSSHHostPublicKey : {"", "ssh-ed25519 AAAA", "not a key"}]

\* repositories the source host can hold
HostRefStates ==
    {r \in [HostRefNames -> {NoSha, "c0", "c1", "c3"}] :
        /\ \A t \in HostTagNames : r[FullRef(tagRefOf(t))] \in {NoSha, "c0"}
        /\ r[FullRef(headRefOf("master"))] \in {NoSha, "c1"}
        /\ r[FullRef(headRefOf("main"))] \in {NoSha, "c3"}
        /\ \A a, b \in HostRefNames : r[a] # NoSha /\ r[b] # NoSha => ~RefConflict(a, b)}

InitHost ==
    /\ hostRefs \in HostRefStates
    /\ hostDefaultBranch \in {""} \cup Branches
    /\ hostDefaultBranch # "" => hostRefs[FullRef(headRefOf(hostDefaultBranch))] # NoSha
    /\ hostTagObjs = {[tag |-> t, sha |-> "c0"] :
                         t \in {u \in HostTagNames : hostRefs[FullRef(tagRefOf(u))] # NoSha}}

InitIdle ==
    /\ cp = [p \in Procs |-> IdleCp]
    /\ fs = [p \in Procs |-> EmptyFiles]
    /\ elapsed = [p \in Procs |-> 0]
    /\ resp = [p \in Procs |-> <<>>]
    /\ posts = [p \in Procs |-> <<>>]
    /\ calls = [p \in Procs |-> <<>>]
    /\ remoteFiles = EmptyFiles
    /\ s3Objects = EmptyFiles

\* createTag called for any tag on any repository state
InitTag ==
    /\ InitHost
    /\ InitIdle
    /\ hostReleases = [t \in HostTagNames |-> NoRelease]
    /\ cfg = CHOOSE c \in Configs : c.PluginSigningSSHHostPublicKey = ""
    /\ \E tag \in ReqTags, sha \in ReqCommits :
         /\ req = [p \in Procs |-> IF p = 1 THEN [IdleReq EXCEPT !.tag = tag, !.commitSHA = sha]
                                            ELSE IdleReq]
         /\ ct = [p \in Procs |-> IF p = 1 THEN [IdleCt EXCEPT !.commitSHA = sha] ELSE IdleCt]
    /\ pc = [p \in Procs |-> IF p = 1 THEN "createTag" ELSE "idle"]

NextTag == \E p \in Procs : createTag(p)

SpecTag == InitTag /\ [][NextTag]_vars

\* two createTag invocations for the same tag of the same repository run at once
InitTagRace ==
    /\ InitHost
    /\ InitIdle
    /\ hostDefaultBranch = "master"
    /\ \A t \in HostTagNames \ {TagV1} : hostRefs[FullRef(tagRefOf(t))] = NoSha
    /\ hostReleases = [t \in HostTagNames |-> NoRelease]
    /\ cfg = CHOOSE c \in Configs : c.PluginSigningSSHHostPublicKey = ""
    /\ \E shas \in [Procs -> {"", "c2"}] :
         /\ req = [p \in Procs |-> [IdleReq EXCEPT !.tag = TagV1, !.commitSHA = shas[p]]]
         /\ ct = [p \in Procs |-> [IdleCt EXCEPT !.commitSHA = shas[p]]]
    /\ pc = [p \in Procs |-> "createTag"]

SpecTagRace == InitTagRace /\ [][NextTag]_vars

\* the cutplugin requests: well-formed ones with every option, and one of each malformed kind
Requests ==
    [tag : {TagV1}, repo : {RepoName}, commitSHA : {"", "c2"},
     assetName : {<<>>, AssetBundle2}, force : BOOLEAN, preRelease : BOOLEAN, attempt : {1}]
    \cup {[IdleReq EXCEPT !.tag = t, !.repo = RepoName] : t \in {<<>>, <<"1.0.0">>, <<"v", "x">>}}
    \cup {[IdleReq EXCEPT !.tag = TagV1, !.repo = r] : r \in {<<>>, <<"nope">>}}

\* one cutplugin request arrives
Init ==
    /\ InitHost
    /\ InitIdle
    /\ hostDefaultBranch = "master"
    /\ \A t \in HostTagNames \ {TagV1} : hostRefs[FullRef(tagRefOf(t))] = NoSha
    /\ hostRefs[FullRef(headRefOf("main"))] = NoSha
    /\ \E release \in {NoRelease} \cup {Release(assets) : assets \in ReleaseAssetLists} :
         hostReleases = [t \in HostTagNames |-> IF t = TagV1 THEN release ELSE NoRelease]
    /\ cfg \in Configs
    /\ \E r \in Requests :
         /\ req = [p \in Procs |-> IF p = 1 THEN r ELSE IdleReq]
         /\ ct = [p \in Procs |-> IF p = 1 THEN [IdleCt EXCEPT !.commitSHA = r.commitSHA]
                                           ELSE IdleCt]
    /\ pc = [p \in Procs |-> IF p = 1 THEN "cutPluginCommandF" ELSE "idle"]

cutPluginCommandF(p) ==
    \/ cutPluginCommandF_validate(p)
    \/ checkRepo(p)
    \/ createTag(p)
    \/ cutPluginCommandF_start(p)
    \/ cutPluginCommandF_post(p)

cutPlugin(p) ==
    \/ getPluginRelease_lookup(p)
    \/ getPluginRelease_wait(p)
    \/ markTagAsPreRelease_lookup(p)
    \/ markTagAsPreRelease_edit(p)
    \/ getPluginAsset_scan(p)
    \/ getPluginAsset_wait(p)
    \/ cutPlugin_MkdirTemp(p)
    \/ downloadAsset(p)
    \/ createPlatformPlugins_find(p)
    \/ createPlatformPlugins_platform(p)
    \/ signPlugins(p)
    \/ uploadFilesToGithub_GetReleaseByTag(p)
    \/ uploadFilesToGithub_getReleaseAsset(p)
    \/ uploadFilesToGithub_DeleteReleaseAsset(p)
    \/ uploadFilesToGithub_UploadReleaseAsset(p)
    \/ cutPlugin_Symlink(p)
    \/ cutPlugin_Symlink_sig(p)
    \/ uploadToS3_file(p)

Next ==
    \/ \E p \in Procs : cutPluginCommandF(p) \/ cutPlugin(p)
    \/ CI_CreateRelease
    \/ CI_UploadAsset

Spec == Init /\ [][Next]_vars

\* one cutplugin request arrives for a release whose only asset is named as the bundle
\* usually is, or as the duplicate for the object store, or as a platform archive
InitNames ==
    /\ InitHost
    /\ InitIdle
    /\ hostDefaultBranch = "master"
    /\ \A t \in HostTagNames \ {TagV1} : hostRefs[FullRef(tagRefOf(t))] = NoSha
    /\ hostRefs[FullRef(headRefOf("main"))] = NoSha
    /\ \E release \in {NoRelease} \cup
                      {Release(<<name>>) :
                          name \in {AssetBundle, S3PluginFilepath(RepoName, TagV1),
                                    PlatformTarPath(RepoName, TagV1, "linux-amd64")}} :
         hostReleases = [t \in HostTagNames |-> IF t = TagV1 THEN release ELSE NoRelease]
    /\ cfg \in {c \in Configs : c.PluginSigningSSHHostPublicKey # ""}
    /\ \E r \in Requests :
         /\ req = [p \in Procs |-> IF p = 1 THEN r ELSE IdleReq]
         /\ ct = [p \in Procs |-> IF p = 1 THEN [IdleCt EXCEPT !.commitSHA = r.commitSHA]
                                           ELSE IdleCt]
    /\ pc = [p \in Procs |-> IF p = 1 THEN "cutPluginCommandF" ELSE "idle"]

SpecNames == InitNames /\ [][Next]_vars

\* cutPlugin up to the return of getPluginAsset
cutPlugin_waits(p) ==
    \/ getPluginRelease_lookup(p)
    \/ getPluginRelease_wait(p)
    \/ markTagAsPreRelease_lookup(p)
    \/ markTagAsPreRelease_edit(p)
    \/ getPluginAsset_scan(p)
    \/ getPluginAsset_wait(p)

NextWait ==
    \/ \E p \in Procs : cutPluginCommandF(p) \/ cutPlugin_waits(p)
    \/ CI_CreateRelease
    \/ CI_UploadAsset

\* the command and the two waits of its workflow; the handler and the goroutine it starts
\* keep running
SpecWait ==
    /\ Init
    /\ [][NextWait]_vars
    /\ WF_vars(\E p \in Procs : cutPluginCommandF(p) \/ cutPlugin_waits(p))

\* the command is given again, with --force, after its workflow has failed: a new request
\* with new locals meets what the failed run left on the source host, the signing host
\* and the object store
cutPluginCommandF_again(p) ==
    /\ pc[p] = "done"
    /\ cp[p].started
    /\ cp[p].err # Nil
    /\ req[p].attempt = 1
    /\ req' = [req EXCEPT ![p].force = TRUE, ![p].attempt = 2]
    /\ pc' = [pc EXCEPT ![p] = "cutPluginCommandF"]
    /\ ct' = [ct EXCEPT ![p] = [IdleCt EXCEPT !.commitSHA = req[p].commitSHA]]
    /\ cp' = [cp EXCEPT ![p] = [IdleCp EXCEPT !.downloaded = cp[p].downloaded]]
    /\ fs' = [fs EXCEPT ![p] = EmptyFiles]
    /\ elapsed' = [elapsed EXCEPT ![p] = 0]
    /\ resp' = [resp EXCEPT ![p] = <<>>]
    /\ posts' = [posts EXCEPT ![p] = <<>>]
    /\ calls' = [calls EXCEPT ![p] = <<>>]
    /\ UNCHANGED <<hostRefs, hostTagObjs, hostDefaultBranch, hostReleases, remoteFiles,
                   s3Objects, cfg>>

\* one request for a release whose bundle the build has uploaded, with a usable signing
\* configuration
InitRetry ==
    /\ Init
    /\ cfg.PluginSigningSSHKeyPath = "id_rsa"
    /\ cfg.PluginSigningSSHHostPublicKey = "ssh-ed25519 AAAA"
    /\ req[1].repo = RepoName
    /\ req[1].tag = TagV1
    /\ req[1].assetName = <<>>
    /\ ~req[1].force
    /\ req[1].preRelease <=> req[1].commitSHA # ""
    /\ hostReleases[TagV1] \in {NoRelease, Release(<<AssetBundle>>)}

NextRetry ==
    \/ Next
    \/ \E p \in Procs : cutPluginCommandF_again(p)

SpecRetry == InitRetry /\ [][NextRetry]_vars

\* two workflows for the same tag of the same repository, started by two forced slash
\* commands, have both reached signPlugins: the tag existed, the release holds the bundle,
\* and each temporary folder holds the bundle and its one platform archive
InitSignRace ==
    LET paths == <<PlatformTarPath(RepoName, TagV1, "linux-amd64"), AssetBundle>>
    IN  /\ hostRefs = [r \in HostRefNames |->
                          IF r = FullRef(tagRefOf(TagV1)) THEN "c0"
                          ELSE IF r = FullRef(headRefOf("master")) THEN "c1" ELSE NoSha]
        /\ hostDefaultBranch = "master"
        /\ hostTagObjs = {[tag |-> TagV1, sha |-> "c0"]}
        /\ hostReleases = [t \in HostTagNames |->
                              IF t = TagV1 THEN Release(<<AssetBundle>>) ELSE NoRelease]
        /\ remoteFiles = EmptyFiles
        /\ s3Objects = EmptyFiles
        /\ cfg = [PluginSigningSSHUser |-> "signer-client",
                  PluginSigningSSHKeyPath |-> "id_rsa",
                  PluginSigningSSHPublicCertPath |-> "",
                  PluginSigningSSHHostPublicKey |-> "ssh-ed25519 AAAA"]
        /\ pc = [p \in Procs |-> "copyFilesToRemoteServer"]
        /\ req = [p \in Procs |->
                     [IdleReq EXCEPT !.tag = TagV1, !.repo = RepoName, !.commitSHA = "c2",
                                     !.force = TRUE]]
        /\ ct = [p \in Procs |->
                    [IdleCt EXCEPT !.commitSHA = "c2", !.refs = {FullRef(tagRefOf(TagV1))},
                                   !.looked = TRUE, !.ret = ErrTagExists, !.done = TRUE]]
        /\ cp = [p \in Procs |->
                    [IdleCp EXCEPT !.started = TRUE, !.release = Release(<<AssetBundle>>),
                                   !.asset = AssetBundle, !.tmpFolder = "created",
                                   !.tmpDirs = MkdirTemp({}, WorkDir),
                                   !.githubPluginFilePath = AssetBundle,
                                   !.downloaded = BundleLinux,
                                   !.platformBinaries =
                                       [q \in {"linux-amd64"} |-> Base(BinaryPath(q))],
                                   !.platformPluginFilePaths = <<paths[1]>>,
                                   !.filePaths = paths]]
        /\ fs = [p \in Procs |->
                    WriteFile(WriteFile(EmptyFiles, AssetBundle, BundleLinux),
                              paths[1], BundleLinux)]
        /\ resp = [p \in Procs |->
                      <<[kind |-> "message",
                         text |-> "Tag already exists. Waiting for the artifacts"]>>]
        /\ calls = [p \in Procs |->
                       <<[op |-> "Search.Repositories", arg |-> RepoName, res |-> "ok"],
                         [op |-> "Git.GetRefs", arg |-> tagRefOf(TagV1), res |-> "ok"],
                         [op |-> "Repositories.GetReleaseByTag", arg |-> TagV1, res |-> "ok"],
                         [op |-> "Repositories.DownloadReleaseAsset", arg |-> AssetBundle,
                          res |-> "ok"],
                         [op |-> "archiveContains", arg |-> paths[1], res |-> "ok"]>>]
        /\ posts = [p \in Procs |-> <<>>]
        /\ elapsed = [p \in Procs |-> 0]

NextSignRace == \E p \in Procs : signPlugins(p)

SpecSignRace == InitSignRace /\ [][NextSignRace]_vars

----------------------------------------------------------------------------
(* slashCommandHandler: the permissions of a slash command *)

\* initCommands: the names of the commands added to the root command
initCommands ==
    {"cut", "seeconf", "setci", "runjob", "cutstatus", "lockpootle", "getpootle",
     "cutplugin", "trigger"}

\* rootCmd.Find(args): the flags are stripped (a flag the root command does not know takes
\* the argument after it as its value, and ends the scan when at most one argument is
\* left), and the first argument that remains names the command; the root command itself
\* ("matterbuild") when there is none or it names no command
Find(rootCmd, args) ==
    LET RECURSIVE stripFlags(_)
        stripFlags(a) ==
            IF a = <<>> THEN <<>>
            ELSE IF Head(a) = "--" THEN <<>>
            ELSE IF Head(a) \in {"--tag", "--repo", "--force", "--dryrun"}
            THEN IF Len(Tail(a)) <= 1 THEN <<>> ELSE stripFlags(Tail(Tail(a)))
            ELSE <<Head(a)>> \o stripFlags(Tail(a))
        commands == stripFlags(args)
    IN  IF commands # <<>> /\ Head(commands) \in rootCmd THEN Head(commands)
        ELSE "matterbuild"

checkSlashPermissions_noReleaseUsers(command, rootCmd) ==
    IF command.Token \notin cfg.AllowedTokens
    THEN NewErr("Token for slash command is incorrect")
    ELSE IF command.UserID \notin cfg.AllowedUsers
    THEN NewErr("You don't have permissions to use this command.")
    ELSE Nil

\* checkSlashPermissions: the token, the user, and for "cut" and "cutplugin" the release
\* users
checkSlashPermissions(command, rootCmd) ==
    IF command.Token \notin cfg.AllowedTokens
    THEN NewErr("Token for slash command is incorrect")
    ELSE IF command.UserID \notin cfg.AllowedUsers
    THEN NewErr("You don't have permissions to use this command.")
    ELSE IF /\ Find(rootCmd, command.Text) \in {"cut", "cutplugin"}
            /\ command.UserID \notin cfg.ReleaseUsers
    THEN NewErr("You don't have permissions to use this command.")
    ELSE Nil

\* slashCommandHandler: ParseSlashCommand, checkSlashPermissions, rootCmd.Execute, which
\* finds the command as checkSlashPermissions did and calls its RunE unless its flags do
\* not parse; the root command has no RunE and prints its help
slashCommandHandler(p) ==
    /\ pc[p] = "slashCommandHandler"
    /\ \E parsed \in BOOLEAN, flagsParse \in BOOLEAN :
         LET command == req[p]
             err == checkSlashPermissions(command, initCommands)
             cmd == Find(initCommands, command.Text)
         IN  IF ~parsed
             THEN /\ WriteErrorResponse(p, "Unable to parse incoming slash command info")
                  /\ UNCHANGED calls
             ELSE IF err # Nil
             THEN /\ WriteErrorResponse(p, err[1])
                  /\ UNCHANGED calls
             ELSE IF cmd = "matterbuild" \/ ~flagsParse
             THEN /\ WriteEnrichedResponse(p, "Information")
                  /\ UNCHANGED calls
             ELSE /\ calls' = [calls EXCEPT ![p] = Logged(p, "RunE", cmd, "ok")]
                  /\ UNCHANGED resp
    /\ pc' = [pc EXCEPT ![p] = "done"]
    /\ UNCHANGED <<req, tagVars, cp, fs, elapsed, posts, hostReleases, remoteFiles,
                   s3Objects, cfg>>

\* slash commands of any user with any token, under the lists of TestCheckSlashPermissions
InitSlash ==
    /\ InitHost
    /\ InitIdle
    /\ hostDefaultBranch = "master"
    /\ \A r \in HostRefNames : r # FullRef(headRefOf("master")) => hostRefs[r] = NoSha
    /\ hostReleases = [t \in HostTagNames |-> NoRelease]
    /\ ct = [p \in Procs |-> IdleCt]
    /\ cfg = [AllowedTokens |-> {"token"}, AllowedUsers |-> {"userid1", "userid2"},
              ReleaseUsers |-> {"userid1", "userid3"}]
    /\ req \in [Procs -> [Token : {"token", "another token"},
                          UserID : {"userid1", "userid2", "userid3", "userid4"},
                          Text : {<<"cut", "0.0.0-rc0">>,
                                  <<"cutplugin", "--tag", "v0.0.0-rc0", "--repo", "testplugin">>,
                                  <<"--dryrun", "x", "cut", "0.0.0-rc0">>,
                                  <<"--force", "cutplugin">>,
                                  <<"seeconf">>, <<>>}]]
    /\ pc = [p \in Procs |-> "slashCommandHandler"]

NextSlash == \E p \in Procs : slashCommandHandler(p)

SpecSlash == InitSlash /\ [][NextSlash]_vars

----------------------------------------------------------------------------
(* TriggerPipeline: the form posted to the pipeline trigger *)

\* strings.TrimPrefix(s, prefix)
TrimPrefix(s, prefix) ==
    IF HasPrefix(s, prefix) THEN SubSeq(s, Len(prefix) + 1, Len(s)) ELSE s

getPipelineFormData_lastMatch(pipelineTrigger, args) ==
    LET value(v) ==
            IF TrimPrefix(v, <<"%%">>) # v
            THEN LET search == TrimPrefix(v, <<"%%">>)
                     hits == {i \in 1..Len(args.list) :
                                 TrimPrefix(args.list[i], search \o <<"=">>) # args.list[i]}
                 IN  IF hits = {} THEN v
                     ELSE TrimPrefix(args.list[CHOOSE i \in hits : \A j \in hits : j <= i],
                                     search \o <<"=">>)
            ELSE IF TrimPrefix(v, <<"--">>) # v
            THEN IF \E i \in 1..Len(args.list) : args.list[i] = v THEN <<"true">> ELSE <<"false">>
            ELSE v
    IN  [key \in {<<"token">>, <<"ref">>}
                 \cup {<<"variables[", n, "]">> : n \in DOMAIN pipelineTrigger.Variables} |->
            IF key = <<"token">> THEN pipelineTrigger.Token
            ELSE IF key = <<"ref">> THEN pipelineTrigger.Reference
            ELSE value(pipelineTrigger.Variables[key[2]])]

\* getPipelineFormData: token, ref, and variables[<name>] for every configured variable;
\* a value "%%<search>" is replaced by the rest of the first argument that begins with
\* "<search>=", a value "--<flag>" by "true" if an argument equals it and by "false"
\* otherwise
getPipelineFormData(pipelineTrigger, args) ==
    LET value(v) ==
            IF TrimPrefix(v, <<"%%">>) # v
            THEN LET search == TrimPrefix(v, <<"%%">>)
                     hits == {i \in 1..Len(args.list) :
                                 TrimPrefix(args.list[i], search \o <<"=">>) # args.list[i]}
                 IN  IF hits = {} THEN v
                     ELSE TrimPrefix(args.list[CHOOSE i \in hits : \A j \in hits : i <= j],
                                     search \o <<"=">>)
            ELSE IF TrimPrefix(v, <<"--">>) # v
            THEN IF \E i \in 1..Len(args.list) : args.list[i] = v THEN <<"true">> ELSE <<"false">>
            ELSE v
    IN  [key \in {<<"token">>, <<"ref">>}
                 \cup {<<"variables[", n, "]">> : n \in DOMAIN pipelineTrigger.Variables} |->
            IF key = <<"token">> THEN pipelineTrigger.Token
            ELSE IF key = <<"ref">> THEN pipelineTrigger.Reference
            ELSE value(pipelineTrigger.Variables[key[2]])]

\* args == nil; a nil slice has no elements
NilArgs == [isNil |-> TRUE, list |-> <<>>]

\* validateArguments: the error, Nil if there is none
validateArguments(args) ==
    IF args.isNil THEN NewErr("undefined arguments")
    ELSE IF \E i \in 1..Len(args.list) :
                ~Contains(args.list[i], "=") /\ ~HasPrefix(args.list[i], <<"--">>)
    THEN NewErr("arguments should be defined as key value pair")
    ELSE Nil

\* TriggerPipeline: validateArguments, getPipelineFormData, post, and the web_url of the
\* answer
TriggerPipeline(p) ==
    /\ pc[p] = "TriggerPipeline"
    /\ \E answer \in {"web_url", "no web_url", "403"} :
         LET args == req[p].args
             err == validateArguments(args)
             formData == getPipelineFormData(cfg, args)
         IN  IF err # Nil
             THEN /\ resp' = [resp EXCEPT ![p] = Append(@, [kind |-> "error", text |-> err[1]])]
                  /\ UNCHANGED calls
             ELSE /\ calls' = [calls EXCEPT ![p] =
                         Logged(p, "http.PostForm", [url |-> cfg.URL, formData |-> formData],
                                IF answer = "403" THEN "err" ELSE "ok")]
                  /\ resp' = [resp EXCEPT ![p] = Append(@,
                         IF answer = "403"
                         THEN [kind |-> "error", text |-> "invalid request"]
                         ELSE IF answer = "no web_url"
                         THEN [kind |-> "error",
                               text |-> "web_url is missing at trigger pipeline response"]
                         ELSE [kind |-> "message", text |-> "pipelineURL"])]
    /\ pc' = [pc EXCEPT ![p] = "done"]
    /\ UNCHANGED <<req, tagVars, cp, fs, elapsed, posts, hostReleases, remoteFiles,
                   s3Objects, cfg>>

\* TriggerPipeline called with the trigger of TestGetPipelineFormData, its variables
\* configured in every way, and with no arguments, or up to two of them
InitTrigger ==
    LET values == {<<"B">>, <<"%%", "BIND_TO_C">>, <<"--", "dry_run">>, <<"--", "local">>}
        argValues == {<<"BIND_TO_C", "=", "BIND_VALUE">>, <<"BIND_TO_C", "=", "OTHER">>,
                      <<"BIND_TO_C", "=">>, <<"--", "local">>, <<"--", "dry_run">>,
                      <<"CPT_DDDSADKALSDKAL">>}
        argLists == {NilArgs} \cup
                    {[isNil |-> FALSE, list |-> l] :
                        l \in {<<>>} \cup {<<a>> : a \in argValues}
                                  \cup {<<a, b>> : a \in argValues, b \in argValues}}
    IN  /\ InitHost
        /\ InitIdle
        /\ hostDefaultBranch = "master"
        /\ \A r \in HostRefNames : r # FullRef(headRefOf("master")) => hostRefs[r] = NoSha
        /\ hostReleases = [t \in HostTagNames |-> NoRelease]
        /\ ct = [p \in Procs |-> IdleCt]
        /\ \E variables \in [{"A", "C", "E"} -> values] :
             cfg = [URL |-> "triggerURL", Token |-> "TOKEN", Reference |-> "cloud",
                    Variables |-> variables]
        /\ \E args \in argLists : req = [p \in Procs |-> [args |-> args]]
        /\ pc = [p \in Procs |-> IF p = 1 THEN "TriggerPipeline" ELSE "idle"]

NextTrigger == \E p \in Procs : TriggerPipeline(p)

SpecTrigger == InitTrigger /\ [][NextTrigger]_vars

----------------------------------------------------------------------------
(* CutRelease: the release job on the build server                          *)
(* Here cfg holds the names of the two release jobs, req[p] the release and *)
(* the legacy flag of a cut command, cp[p] the locals of its call, and      *)
(* hostReleases the jobs of the build server: the statuses of a job's       *)
(* builds by build number, and the parameters of the invocations queued    *)
(* and not yet started (the queue keeps one item per set of parameters).    *)

\* build.IsRunning() of job.GetLastBuild()
LastBuildIsRunning(job) == job.builds[Len(job.builds)] = "running"

\* IsCutReleaseRunning: getJob, job.GetLastBuild, build.IsRunning
IsCutReleaseRunning(name, answer) ==
    IF answer = "getJob fails"
    THEN [isRunning |-> FALSE, err |-> NewErr("Unable to get job")]
    ELSE IF answer = "GetLastBuild fails"
    THEN [isRunning |-> FALSE, err |-> NewErr("Unable to get last build")]
    ELSE [isRunning |-> LastBuildIsRunning(hostReleases[name]), err |-> Nil]

\* CutRelease up to its return: the job's name, IsCutReleaseRunning, and the goroutine
\* it starts, which goes on at RunJobWaitForResult
CutRelease(p) ==
    /\ pc[p] = "CutRelease"
    /\ \E answer \in {"getJob fails", "GetLastBuild fails", "ok"} :
         LET jobName == IF req[p].legacy THEN cfg.ReleaseJobLegacy ELSE cfg.ReleaseJob
             running == IsCutReleaseRunning(jobName, answer)
             err == IF running.err # Nil THEN running.err
                    ELSE IF running.isRunning
                    THEN NewErr("There is a release job running.")
                    ELSE Nil
         IN  /\ cp' = [cp EXCEPT ![p] = [jobName |-> jobName, newBuildNumber |-> 0]]
             /\ calls' = [calls EXCEPT ![p] =
                    Logged(p, "IsCutReleaseRunning", jobName,
                           IF running.err # Nil THEN "err"
                           ELSE IF running.isRunning THEN "running" ELSE "ok")]
             /\ resp' = [resp EXCEPT ![p] = Append(@,
                    IF err # Nil THEN [kind |-> "error", text |-> err[1]]
                                 ELSE [kind |-> "message", text |-> "started"])]
             /\ pc' = [pc EXCEPT ![p] = IF err # Nil THEN "done" ELSE "RunJobWaitForResult"]
    /\ UNCHANGED <<req, tagVars, fs, elapsed, posts, hostReleases, remoteFiles, s3Objects,
                   cfg>>

\* RunJobWaitForResult up to its first wait: getJob, the job's next build number and
\* job.InvokeSimple, which queues an invocation of the job
RunJobWaitForResult_invoke(p) ==
    /\ pc[p] = "RunJobWaitForResult"
    /\ \E answer \in {"getJob fails", "InvokeSimple fails", "ok"} :
         LET name == cp[p].jobName
             job == hostReleases[name]
         IN  IF answer = "getJob fails"
             THEN /\ calls' = [calls EXCEPT ![p] = Logged(p, "getJob", name, "err")]
                  /\ pc' = [pc EXCEPT ![p] = "done"]
                  /\ UNCHANGED <<cp, hostReleases>>
             ELSE /\ cp' = [cp EXCEPT ![p].newBuildNumber = Len(job.builds) + 1]
                  /\ calls' = [calls EXCEPT ![p] =
                         Logged(p, "job.InvokeSimple",
                                [job |-> name, MM_VERSION |-> req[p].release,
                                 lastBuild |-> job.builds[Len(job.builds)],
                                 queued |-> job.queued],
                                IF answer = "ok" THEN "ok" ELSE "err")]
                  /\ IF answer = "ok"
                     THEN /\ hostReleases' =
                                 [hostReleases EXCEPT ![name].queued = @ \cup {req[p].release}]
                          /\ pc' = [pc EXCEPT ![p] = "RunJobWaitForResult_wait"]
                     ELSE /\ pc' = [pc EXCEPT ![p] = "done"]
                          /\ UNCHANGED hostReleases
    /\ UNCHANGED <<req, tagVars, fs, elapsed, resp, posts, remoteFiles, s3Objects, cfg>>

\* RunJobWaitForResult from its first poll on: it polls the build of the number it read
\* until that build exists and is no longer running; five polls without the build end it.
\* What the goroutine does next concerns other jobs (Cfg.RCTestingJob, the CI servers).
RunJobWaitForResult_wait(p) ==
    /\ pc[p] = "RunJobWaitForResult_wait"
    /\ LET job == hostReleases[cp[p].jobName]
           n == cp[p].newBuildNumber
       IN  \/ /\ n <= Len(job.builds)
              /\ job.builds[n] # "running"
              /\ calls' = [calls EXCEPT ![p] = Logged(p, "build.GetResult", n, job.builds[n])]
           \/ /\ n > Len(job.builds)
              /\ calls' = [calls EXCEPT ![p] = Logged(p, "build.Poll", n, "err")]
    /\ pc' = [pc EXCEPT ![p] = "done"]
    /\ UNCHANGED <<req, tagVars, cp, fs, elapsed, resp, posts, hostReleases, remoteFiles,
                   s3Objects, cfg>>

\* the build server starts a queued invocation of a job when no build of the job is
\* running, and a running build ends with a result
Jenkins(name) ==
    LET job == hostReleases[name]
    IN  /\ \/ /\ ~LastBuildIsRunning(job)
              /\ \E release \in job.queued :
                   hostReleases' = [hostReleases EXCEPT ![name] =
                       [builds |-> Append(job.builds, "running"),
                        queued |-> job.queued \ {release}]]
           \/ /\ LastBuildIsRunning(job)
              /\ \E result \in {"SUCCESS", "FAILURE"} :
                   hostReleases' = [hostReleases EXCEPT
                                       ![name].builds[Len(job.builds)] = result]
        /\ UNCHANGED <<pc, req, calls, tagVars, cp, fs, elapsed, resp, posts, remoteFiles,
                       s3Objects, cfg>>

\* two cut commands, each for the release job or the legacy one, arrive at a build
\* server whose jobs have a last build, running or not
InitCut ==
    /\ InitHost
    /\ InitIdle
    /\ hostDefaultBranch = "master"
    /\ \A r \in HostRefNames : r # FullRef(headRefOf("master")) => hostRefs[r] = NoSha
    /\ ct = [p \in Procs |-> IdleCt]
    /\ cfg = [ReleaseJob |-> "release-job", ReleaseJobLegacy |-> "release-job-legacy"]
    /\ hostReleases \in [{cfg.ReleaseJob, cfg.ReleaseJobLegacy} ->
                            {[builds |-> <<last>>, queued |-> {}] :
                                 last \in {"SUCCESS", "FAILURE", "running"}}]
    /\ req \in [Procs -> [release : {"5.30.0", "5.31.0"}, legacy : BOOLEAN]]
    /\ pc = [p \in Procs |-> "CutRelease"]

NextCut ==
    \/ \E p \in Procs : \/ CutRelease(p)
                        \/ RunJobWaitForResult_invoke(p)
                        \/ RunJobWaitForResult_wait(p)
    \/ \E name \in {cfg.ReleaseJob, cfg.ReleaseJobLegacy} : Jenkins(name)

SpecCut == InitCut /\ [][NextCut]_vars

----------------------------------------------------------------------------
(* properties of createTag *)

CallIdx(p, ops) == {i \in 1..Len(calls[p]) : calls[p][i].op \in ops}

MutatingOps == {"Git.CreateTag", "Git.CreateRef"}
CommitResolvingOps == {"Repositories.Get", "Git.GetRef", "Repositories.GetCommit"}

\* the lookup for tags/<tag> answered with a ref naming exactly that tag
LookupNamedTag(p) == ct[p].looked /\ FullRef(tagRefOf(req[p].tag)) \in ct[p].refs

\* C1: whenever the host's lookup for tags/<tag> returned a ref naming that tag, createTag
\* has returned ErrTagExists and has issued neither CreateTag nor CreateRef nor any call
\* that resolves a commit (Repositories.Get, Git.GetRef, Repositories.GetCommit).
C1_ExistingTagIsRefused ==
    \A p \in Procs :
        LookupNamedTag(p) =>
            /\ ct[p].done
            /\ ct[p].ret = ErrTagExists
            /\ CallIdx(p, MutatingOps \cup CommitResolvingOps) = {}

C1_Witness ==
    \E p \in Procs : LookupNamedTag(p) /\ ct[p].done /\ Len(calls[p]) = 1

\* every call createTag has issued was answered without an error; a 404 answer to the
\* lookup of the tag is the host's way of saying that no ref matches
AllCreateTagCallsSucceeded(p) ==
    \A i \in 1..Len(calls[p]) :
        \/ calls[p][i].res = "ok"
        \/ calls[p][i].op = "Git.GetRefs" /\ calls[p][i].res = "404"

\* the commit createTag is to tag: the given one, else the tip of the default branch
ExpectedCommit(p) ==
    IF req[p].commitSHA # ""
    THEN req[p].commitSHA
    ELSE hostRefs[FullRef(headRefOf(IF hostDefaultBranch # "" THEN hostDefaultBranch
                                                              ELSE "master"))]

TagCreatedAt(p, sha) ==
    /\ [tag |-> req[p].tag, sha |-> sha] \in hostTagObjs
    /\ hostRefs[FullRef(tagRefOf(req[p].tag))] = sha
    /\ \E i, j \in 1..Len(calls[p]) :
          /\ i < j
          /\ calls[p][i] = [op |-> "Git.CreateTag",
                            arg |-> [tag |-> req[p].tag, sha |-> sha], res |-> "ok"]
          /\ calls[p][j] = [op |-> "Git.CreateRef",
                            arg |-> [ref |-> tagRefOf(req[p].tag), sha |-> sha], res |-> "ok"]

\* C2: when no ref for tags/<tag> exists and every host call succeeds, createTag returns
\* nil after creating the tag object and then the ref tags/<tag>, both at the expected
\* commit, and the host's ref then points at that commit.
C2_CreatesTagWhenAbsent ==
    \A p \in Procs :
        (/\ ct[p].done
         /\ ct[p].looked
         /\ FullRef(tagRefOf(req[p].tag)) \notin ct[p].refs
         /\ AllCreateTagCallsSucceeded(p))
        => (ct[p].ret = Nil /\ TagCreatedAt(p, ExpectedCommit(p)))

----------------------------------------------------------------------------
(* properties of cutPlugin *)

ReleaseWaitPcs == {"getPluginRelease", "getPluginRelease_wait"}
PreReleasePcs == {"markTagAsPreRelease", "markTagAsPreRelease_edit"}
AssetWaitPcs == {"getPluginAsset", "getPluginAsset_wait"}
DownloadPcs == {"MkdirTemp", "downloadAsset"}
SplitPcs == {"createPlatformPlugins", "createPlatformPlugins_loop"}
SignPcs == {"copyFilesToRemoteServer", "copyFilesToRemoteServer_loop",
            "signFilesOnRemoteServer", "signFilesOnRemoteServer_loop",
            "copyFilesFromRemoteServer", "copyFilesFromRemoteServer_loop",
            "verifySignatures",
            "removeFilesFromRemoteServer", "removeFilesFromRemoteServer_loop"}
GithubUploadPcs == {"uploadFilesToGithub", "getReleaseAsset", "DeleteReleaseAsset",
                    "UploadReleaseAsset"}
DuplicationPcs == {"Symlink", "Symlink_sig"}
S3UploadPcs == {"uploadToS3"}
StagePcs == ReleaseWaitPcs \cup PreReleasePcs \cup AssetWaitPcs \cup DownloadPcs
            \cup SplitPcs \cup SignPcs \cup GithubUploadPcs \cup DuplicationPcs
            \cup S3UploadPcs

\* the message cutPlugin puts on the error of the stage that position at belongs to
StageMessage(at) ==
    CASE at \in ReleaseWaitPcs -> "failed to get plugin release"
      [] at \in PreReleasePcs -> "failed to mark release as pre-release"
      [] at \in AssetWaitPcs -> "failed to get plugin asset"
      [] at = "MkdirTemp" -> "failed to create temp dir"
      [] at = "downloadAsset" -> "failed to download asset"
      [] at \in SplitPcs -> "failed to create platform tars"
      [] at \in SignPcs -> "failed to sign plugin tars"
      [] at \in GithubUploadPcs -> "failed to upload files to github"
      [] at = "Symlink" -> "failed to duplicate plugin file"
      [] at = "Symlink_sig" -> "failed to duplicate signature file"
      [] at \in S3UploadPcs -> "failed to upload to s3"
      [] OTHER -> "no stage"

SignOps == {"ssh.Dial", "sftp.Create", "sshClient.Run", "sftp.Open",
            "openpgp.CheckDetachedSignature", "sftp.Remove"}
UploadOps == {"Repositories.UploadReleaseAsset", "uploader.Upload"}
WorkflowOps == {"Repositories.GetReleaseByTag", "Repositories.EditRelease",
                "Repositories.DownloadReleaseAsset", "archiveContains",
                "Repositories.ListReleaseAssets", "Repositories.DeleteReleaseAsset"}
               \cup SignOps \cup UploadOps

OkCalls(p, op) == {i \in CallIdx(p, {op}) : calls[p][i].res = "ok"}

\* every stage of the workflow of p has done its work: the only calls answered with an
\* error are the listing of the release's assets, which uploadFilesToGithub takes for "no
\* such asset", and the lookup of the release link after cutPlugin has returned
EveryStageSucceeded(p) ==
    /\ cp[p].release.exists
    /\ req[p].preRelease => hostReleases[req[p].tag].prerelease
    /\ cp[p].asset # NoAsset
    /\ OkCalls(p, "Repositories.DownloadReleaseAsset") # {}
    /\ DOMAIN cp[p].platformBinaries # {}
    /\ \A q \in DOMAIN cp[p].platformBinaries :
          \E i \in OkCalls(p, "archiveContains") :
              calls[p][i].arg = PlatformTarPath(req[p].repo, req[p].tag, q)
    /\ Len(cp[p].filePaths) = Cardinality(DOMAIN cp[p].platformBinaries) + 1
    /\ \A k \in 1..Len(cp[p].filePaths) :
          /\ \E i \in OkCalls(p, "openpgp.CheckDetachedSignature") :
                calls[p][i].arg.file = cp[p].filePaths[k]
          /\ \E i \in OkCalls(p, "sftp.Remove") :
                calls[p][i].arg = ServerPath(cp[p].filePaths[k])
    /\ \E i \in OkCalls(p, "Repositories.UploadReleaseAsset") :
          calls[p][i].arg.name = SigOf(cp[p].asset)
    /\ Len(cp[p].s3Bucket) = 2 * Len(cp[p].filePaths)
    /\ \A k \in 1..Len(cp[p].s3Bucket) :
          Exists(s3Objects, <<"release/">> \o cp[p].s3Bucket[k])
    /\ \A i \in CallIdx(p, WorkflowOps) :
          calls[p][i].res = "err" =>
              \/ calls[p][i].op = "Repositories.ListReleaseAssets"
              \/ /\ calls[p][i].op = "Repositories.GetReleaseByTag"
                 /\ i = Len(calls[p])
                 /\ pc[p] = "done"

\* C3: cutPlugin returns nil only from the end of its last stage and only if every stage
\* has succeeded; when it returns from a stage with an error, the error is non-nil and is
\* that stage's error under cutPlugin's message for the stage; and once cutPlugin has
\* returned an error nothing more is called and nothing on the source host, the signing
\* host or the object store changes.
C3_StageErrorAborts ==
    /\ [](\A p \in Procs : cp[p].returned /\ cp[p].err = Nil => EveryStageSucceeded(p))
    /\ [][\A p \in Procs :
            /\ (~cp[p].returned /\ cp'[p].returned) =>
                  /\ pc[p] \in StagePcs
                  /\ cp'[p].err = Nil => pc[p] \in S3UploadPcs
                  /\ cp'[p].err # Nil =>
                        /\ Len(cp'[p].err) >= 2
                        /\ Head(cp'[p].err) = StageMessage(pc[p])
            /\ (cp[p].returned /\ cp[p].err # Nil) =>
                  /\ calls'[p] = calls[p]
                  /\ UNCHANGED <<hostReleases, hostRefs, remoteFiles, s3Objects, fs, cp>>
       ]_vars

C3_Witness ==
    \E p \in Procs :
        /\ pc[p] = "done"
        /\ cp[p].returned
        /\ Len(cp[p].err) >= 2
        /\ cp[p].err[1] = "failed to sign plugin tars"
        /\ cp[p].err[2] = "failed signature verification"
        /\ OkCalls(p, "sftp.Open") # {}
        /\ CallIdx(p, UploadOps) = {}

\* the calls of one step of signPlugins come before the calls of another
CallsBefore(p, op1, op2) ==
    \A i \in CallIdx(p, {op1}), j \in CallIdx(p, {op2}) : i < j

\* when op has been called, step prev has succeeded for every file
AfterAll(p, op, prev) ==
    CallIdx(p, {op}) # {} => Cardinality(OkCalls(p, prev)) = Len(cp[p].filePaths)

ValidDetachedSignature(signature, signed) ==
    /\ signature.kind = "sig"
    /\ signed.kind = "bundle"
    /\ signature.of = signed
    /\ signature.key = TrustedKey

\* before call i, verifySignatures has accepted content as a bundle with a valid detached
\* signature, or as the valid detached signature of a bundle
VerifiedBefore(p, i, content) ==
    \E j \in OkCalls(p, "openpgp.CheckDetachedSignature") :
        /\ j < i
        /\ content \in {calls[p][j].arg.signed, calls[p][j].arg.signature}
        /\ ValidDetachedSignature(calls[p][j].arg.signature, calls[p][j].arg.signed)

\* C5: every file handed to UploadReleaseAsset or to the object-store uploader is a bundle
\* whose detached signature verifySignatures has checked before in this run, and which is
\* valid under the embedded key, or it is that signature; and when signPlugins has failed
\* nothing is handed to either.
C5_NothingUnverifiedPublished ==
    \A p \in Procs :
        /\ \A i \in CallIdx(p, UploadOps) : VerifiedBefore(p, i, calls[p][i].arg.content)
        /\ (cp[p].returned /\ cp[p].err # Nil /\ Head(cp[p].err) = "failed to sign plugin tars")
              => CallIdx(p, UploadOps) = {} /\ s3Objects = EmptyFiles

C5_Witness ==
    \E p \in Procs :
        /\ cp[p].returned
        /\ cp[p].err = Nil
        /\ OkCalls(p, "Repositories.UploadReleaseAsset") # {}
        /\ Cardinality(OkCalls(p, "uploader.Upload")) = 6

\* file k of the input of verifySignatures and its <file>.sig can be read, and the
\* second is a valid detached signature of the first
FileVerifies(p, k) ==
    /\ ReadFile(fs[p], cp[p].filePaths[k]) # NoFile
    /\ ReadFile(fs[p], SigOf(cp[p].filePaths[k])) # NoFile
    /\ ValidDetachedSignature(ReadFile(fs[p], SigOf(cp[p].filePaths[k])),
                              ReadFile(fs[p], cp[p].filePaths[k]))

VerifySignaturesFailed(p) ==
    /\ cp[p].returned
    /\ Len(cp[p].err) >= 2
    /\ cp[p].err[2] = "failed signature verification"

\* C6: verifySignatures goes on to the next file, or returns success after the last one,
\* only if the current file and its .sig can be read and the .sig is a valid detached
\* signature of the file under the embedded key, so that it returns success only if that
\* holds of every file; at the first file of which it does not hold it returns an error,
\* and after that it checks no signature.
C6_VerifySignaturesFailsClosed ==
    /\ [][\A p \in Procs :
            /\ pc[p] = "verifySignatures" /\ pc'[p] # pc[p] /\ pc'[p] # "cutPlugin_ret"
                  => \A k \in 1..Len(cp[p].filePaths) : FileVerifies(p, k)
            /\ pc[p] = "verifySignatures" /\ pc'[p] = pc[p]
                  => FileVerifies(p, cp[p].i) /\ cp'[p].i = cp[p].i + 1
            /\ pc[p] = "verifySignatures" /\ ~FileVerifies(p, cp[p].i)
                  => /\ pc'[p] = "cutPlugin_ret"
                     /\ cp'[p].err # Nil
                     /\ VerifySignaturesFailed(p)'
            /\ VerifySignaturesFailed(p)
                  => CallIdx(p, {"openpgp.CheckDetachedSignature"})'
                         = CallIdx(p, {"openpgp.CheckDetachedSignature"})
       ]_vars
    /\ [](\A p \in Procs :
            VerifySignaturesFailed(p) =>
                Cardinality(CallIdx(p, {"openpgp.CheckDetachedSignature"}))
                    <= Len(cp[p].filePaths))

C6_Witness ==
    \E p \in Procs :
        /\ VerifySignaturesFailed(p)
        /\ Len(cp[p].filePaths) = 3
        /\ Cardinality(OkCalls(p, "openpgp.CheckDetachedSignature")) = 1
        /\ Cardinality(CallIdx(p, {"openpgp.CheckDetachedSignature"})) = 2

\* the host-key check of the connection logged as call i
HostKeyCallbackOf(p, i) ==
    IF calls[p][i].op = "ssh.Dial" THEN calls[p][i].arg
    ELSE calls[p][i].arg.HostKeyCallback

ConnectionOps == {"ssh.Dial", "sshClient.Run"}
SigningHostOps == ConnectionOps \cup {"sftp.Create", "sftp.Open", "sftp.Remove"}

\* the workflow of p has come to signPlugins
SigningReached(p) == cp[p].filePaths # <<>> /\ pc[p] # "copyFilesToRemoteServer"

\* C7: getSSHClientConfig returns an error for an empty host public key; every connection
\* of the signing stage, the SFTP ones of upload, fetch and removal and the SSH one of each
\* signer run, is opened with a configuration whose host-key check is the configured key,
\* fixed; and with the host key unset no connection is attempted, nothing reaches the
\* signing host, and signPlugins fails at its first step, the upload.
C7_HostKeyPinned ==
    /\ \A c \in Configs :
          getSSHClientConfig(c.PluginSigningSSHUser, c.PluginSigningSSHKeyPath,
                             c.PluginSigningSSHPublicCertPath, "").err # Nil
    /\ \A p \in Procs :
          /\ \A i \in CallIdx(p, ConnectionOps) :
                /\ cfg.PluginSigningSSHHostPublicKey # ""
                /\ HostKeyCallbackOf(p, i) = <<"FixedHostKey", cfg.PluginSigningSSHHostPublicKey>>
          /\ cfg.PluginSigningSSHHostPublicKey = "" =>
                /\ CallIdx(p, SigningHostOps) = {}
                /\ remoteFiles = EmptyFiles
                /\ pc[p] \notin SignPcs \ {"copyFilesToRemoteServer"}
                /\ SigningReached(p) =>
                      /\ cp[p].returned
                      /\ Len(cp[p].err) >= 3
                      /\ SubSeq(cp[p].err, 1, 3) = <<"failed to sign plugin tars",
                                                    "error while copying files",
                                                    "failed to get sftp client">>

C7_Witness ==
    \E p \in Procs :
        /\ cfg.PluginSigningSSHHostPublicKey = ""
        /\ SigningReached(p)
        /\ cp[p].err[Len(cp[p].err)] = "missing host public key"

StageRank(at) ==
    CASE at \in ReleaseWaitPcs \cup PreReleasePcs -> 1
      [] at \in AssetWaitPcs -> 2
      [] at \in DownloadPcs -> 3
      [] at \in SplitPcs -> 4
      [] at \in SignPcs -> 5
      [] at \in GithubUploadPcs \cup DuplicationPcs \cup S3UploadPcs -> 6
      [] OTHER -> 7

FirstCall(p, ops) == CHOOSE i \in CallIdx(p, ops) : \A j \in CallIdx(p, ops) : i <= j

\* C8: a workflow never goes back to an earlier stage of release wait, asset wait,
\* download, split, sign, publish; the split starts only after the asset has been
\* downloaded; and before anything is sent to the signing host, the bundle of every
\* platform of the manifest has passed the single-binary check.
C8_StagesInOrder ==
    /\ [][\A p \in Procs : pc[p] \in StagePcs => StageRank(pc'[p]) >= StageRank(pc[p])]_vars
    /\ [](\A p \in Procs :
            /\ (pc[p] \in SplitPcs \/ CallIdx(p, {"archiveContains"}) # {}) =>
                  /\ OkCalls(p, "Repositories.DownloadReleaseAsset") # {}
                  /\ cp[p].downloaded # NoFile
                  /\ \A i \in CallIdx(p, {"archiveContains"}),
                        j \in CallIdx(p, {"Repositories.DownloadReleaseAsset"}) : j < i
            /\ (pc[p] \in SignPcs \/ CallIdx(p, SignOps) # {}) =>
                  /\ DOMAIN cp[p].platformBinaries # {}
                  /\ \A q \in DOMAIN cp[p].platformBinaries :
                        \E i \in OkCalls(p, "archiveContains") :
                            /\ calls[p][i].arg = PlatformTarPath(req[p].repo, req[p].tag, q)
                            /\ CallIdx(p, SignOps) # {} => i < FirstCall(p, SignOps))

C8_Witness ==
    \E p \in Procs :
        /\ Cardinality(DOMAIN cp[p].platformBinaries) = 2
        /\ Cardinality(OkCalls(p, "archiveContains")) = 2
        /\ OkCalls(p, "sftp.Create") # {}

----------------------------------------------------------------------------
(* properties of cutPluginCommandF and getPluginAsset *)

\* cutPluginCommandF has acted on what createTag returned
AfterCreateTag(p) == ct[p].done /\ pc[p] # "createTag_ret"

LastResp(p) == resp[p][Len(resp[p])]

\* C9: after createTag has returned ErrTagExists, without force the command has answered
\* with the 'already exists' error and the workflow is never started: it makes no call of
\* the workflow and posts nothing; with force the workflow has been started for the tag;
\* after any other error of createTag the command has answered with an error and the
\* workflow is never started, with or without force.
C9_ExistingTagNeedsForce ==
    \A p \in Procs :
        AfterCreateTag(p) =>
            /\ (ct[p].ret = ErrTagExists /\ ~req[p].force) =>
                  /\ pc[p] = "done"
                  /\ ~cp[p].started
                  /\ resp[p] = <<[kind |-> "error",
                                  text |-> "Tag already exists. Not generating any artifacts."]>>
                  /\ CallIdx(p, WorkflowOps) = {}
                  /\ posts[p] = <<>>
            /\ (ct[p].ret = ErrTagExists /\ req[p].force) =>
                  /\ cp[p].started
                  /\ resp[p] # <<>>
                  /\ resp[p][1].kind = "message"
            /\ ct[p].ret \notin {Nil, ErrTagExists} =>
                  /\ pc[p] = "done"
                  /\ ~cp[p].started
                  /\ resp[p] # <<>>
                  /\ LastResp(p).kind = "error"
                  /\ CallIdx(p, WorkflowOps) = {}
                  /\ posts[p] = <<>>

C9_Witness ==
    \E p \in Procs :
        /\ ct[p].ret = ErrTagExists
        /\ req[p].force
        /\ cp[p].returned
        /\ cp[p].err = Nil
        /\ pc[p] = "done"

\* the positions of the release's assets whose names end in .tar.gz
TarGzAssets(assets) == {i \in 1..Len(assets) : HasSuffix(assets[i], <<".tar.gz">>)}

\* C10: with no asset name given, a pass of getPluginAsset over a release with more than
\* one asset ending in .tar.gz returns an error and no asset, and a pass over a release
\* with exactly one such asset returns that asset, whatever the other assets are; so an
\* asset picked without a name is always the only .tar.gz of the release.
C10_AmbiguousBundleIsFatal ==
    /\ [][\A p \in Procs :
            (pc[p] = "getPluginAsset" /\ pc'[p] # pc[p] /\ req[p].assetName = <<>>) =>
                LET assets == cp[p].release.assets
                    tars == TarGzAssets(assets)
                IN  /\ Cardinality(tars) > 1 =>
                          /\ cp'[p].asset = NoAsset
                          /\ cp'[p].returned
                          /\ cp'[p].err # Nil
                    /\ Cardinality(tars) = 1 =>
                          /\ \A i \in tars : cp'[p].asset = assets[i]
                          /\ ~cp'[p].returned
                          /\ pc'[p] = "MkdirTemp"
       ]_vars
    /\ [](\A p \in Procs :
            (req[p].assetName = <<>> /\ cp[p].asset # NoAsset) =>
                /\ Cardinality(TarGzAssets(cp[p].release.assets)) = 1
                /\ \A i \in TarGzAssets(cp[p].release.assets) :
                      cp[p].asset = cp[p].release.assets[i])

C10_Witness ==
    \E p \in Procs :
        /\ req[p].assetName = <<>>
        /\ Cardinality(TarGzAssets(cp[p].release.assets)) = 2
        /\ cp[p].returned
        /\ cp[p].err = <<"failed to get plugin asset", "found unexpected file">>

----------------------------------------------------------------------------
(* properties of the two waits *)

\* a pass of getPluginAsset over the release as it is on the source host
ScanOfHost(p) == ScanAssets(hostReleases[req[p].tag].assets, 1, req[p].assetName, NoAsset)

\* C11: once a matching asset has been added to the release on the source host, the next
\* check of getPluginAsset finds it: a check made while the host's release has a matching
\* asset returns that asset, and does not go back to waiting for the timeout.
C11_AssetAddedWhilePollingIsFound ==
    [][\A p \in Procs :
          (/\ pc[p] = "getPluginAsset"
           /\ pc'[p] # pc[p]
           /\ ScanOfHost(p).err = Nil
           /\ ScanOfHost(p).asset # NoAsset)
          => (cp'[p].asset = ScanOfHost(p).asset /\ pc'[p] = "MkdirTemp")
      ]_vars

LastCall(p) == calls[p][Len(calls[p])]

ReleaseLookupFailed(p) ==
    /\ cp[p].returned
    /\ Len(cp[p].err) >= 2
    /\ SubSeq(cp[p].err, 1, 2) = <<"failed to get plugin release",
                                   "failed to get release by tag">>

\* C12: a lookup of getPluginRelease answered 'not found' returns no error and is followed,
\* after the polling interval, by another lookup unless the timeout has elapsed; a lookup
\* answered with any other error makes getPluginRelease return that error at once, and
\* no lookup is made after it.
C12_NotFoundIsRetried ==
    /\ [][\A p \in Procs :
            /\ pc[p] = "getPluginRelease" /\ pc'[p] # pc[p] =>
                  /\ LastCall(p)'.op = "Repositories.GetReleaseByTag"
                  /\ LastCall(p)'.res = "404" =>
                        /\ pc'[p] = "getPluginRelease_wait"
                        /\ ~cp'[p].returned
                        /\ cp'[p].err = Nil
                  /\ LastCall(p)'.res = "err" =>
                        /\ pc'[p] = "cutPlugin_ret"
                        /\ ReleaseLookupFailed(p)'
            /\ pc[p] = "getPluginRelease_wait" /\ pc'[p] # pc[p] /\ elapsed[p] < MaxPolls =>
                  pc'[p] = "getPluginRelease"
            /\ ReleaseLookupFailed(p) =>
                  CallIdx(p, {"Repositories.GetReleaseByTag"})'
                      = CallIdx(p, {"Repositories.GetReleaseByTag"})
       ]_vars
    /\ [](\A p \in Procs :
            /\ \A k \in 1..Len(cp[p].err) : cp[p].err[k] # NotFoundErr[1]
            /\ \A i \in CallIdx(p, {"Repositories.GetReleaseByTag"}) :
                  (calls[p][i].res = "err" /\ cp[p].release = NoRelease) =>
                      i = Len(calls[p]) /\ cp[p].returned)

C12_Witness ==
    \E p \in Procs :
        /\ ReleaseLookupFailed(p)
        /\ \E i, j \in CallIdx(p, {"Repositories.GetReleaseByTag"}) :
              i < j /\ calls[p][i].res = "404" /\ calls[p][j].res = "err"

WaitTimedOut(p) ==
    /\ cp[p].returned
    /\ cp[p].err \in {<<"failed to get plugin release", TimedOut[1]>>,
                      <<"failed to get plugin asset", TimedOut[1]>>}

\* C13: a workflow that is waiting for the release leaves that wait, and one that is
\* waiting for the asset leaves that wait; a wait whose timeout has elapsed returns the
\* timeout error; and a workflow whose wait has timed out ends, having called nothing on
\* the signing host and uploaded nothing.
C13_WaitsTerminate ==
    /\ \A p \in Procs : (pc[p] \in ReleaseWaitPcs) ~> (pc[p] \notin ReleaseWaitPcs)
    /\ \A p \in Procs : (pc[p] \in AssetWaitPcs) ~> (pc[p] \notin AssetWaitPcs)
    /\ \A p \in Procs : WaitTimedOut(p) ~> (pc[p] = "done")
    /\ [][\A p \in Procs :
            (pc[p] \in {"getPluginRelease_wait", "getPluginAsset_wait"}
             /\ pc'[p] # pc[p] /\ elapsed[p] >= MaxPolls)
            => WaitTimedOut(p)']_vars
    /\ [](\A p \in Procs :
            WaitTimedOut(p) =>
                /\ CallIdx(p, SignOps \cup UploadOps) = {}
                /\ remoteFiles = EmptyFiles
                /\ s3Objects = EmptyFiles
                /\ cp[p].filePaths = <<>>)

C13_Witness ==
    \E p \in Procs :
        /\ pc[p] = "done"
        /\ cp[p].err = <<"failed to get plugin asset", TimedOut[1]>>
        /\ elapsed[p] = MaxPolls
        /\ Len(posts[p]) = 1

----------------------------------------------------------------------------
(* properties of createPlatformPlugins *)

\* the platforms the manifest of the bundle declares an executable for
DeclaredPlatforms(content) == DOMAIN content.manifest.executables

\* the plugin binaries of an archive: its files server/dist/plugin-*
PluginBinaries(content) == {f \in content.files : IsDistPlugin(f)}

\* a .tar.gz of one plugin directory with a manifest that declares a non-empty set of
\* platform executables, each of them a file of the bundle
DeclaresPlatforms(content) ==
    /\ content.kind = "bundle"
    /\ content.valid
    /\ content.root = "dir"
    /\ content.manifest.found
    /\ content.manifest.server
    /\ DeclaredPlatforms(content) # {}
    /\ \A q \in DeclaredPlatforms(content) : content.manifest.executables[q] \in content.files

SplitFailed(p) ==
    cp[p].returned /\ cp[p].err # Nil /\ Head(cp[p].err) = "failed to create platform tars"

\* tar, gzip or the file system failed while a platform archive was written
SplitCommandFailed(p) ==
    SplitFailed(p) /\ \E k \in 1..Len(cp[p].err) :
                          cp[p].err[k] = "failed to exclude, tar and recompress"

\* createPlatformPlugins has returned for the bundle that was downloaded
SplitReturned(p) == cp[p].downloaded # NoFile /\ pc[p] \notin SplitPcs

\* C14: for a bundle whose manifest declares a non-empty set P of platform executables,
\* createPlatformPlugins returns no error unless a command failed, and what it returns is
\* one path <repo>-<tag>-<q>.tar.gz for each q in P and no other, each archive holding
\* exactly one plugin binary, the one declared for q.
C14_OneBundlePerPlatform ==
    \A p \in Procs :
        (DeclaresPlatforms(cp[p].downloaded) /\ SplitReturned(p) /\ ~SplitCommandFailed(p)) =>
            /\ ~SplitFailed(p)
            /\ Len(cp[p].platformPluginFilePaths)
                   = Cardinality(DeclaredPlatforms(cp[p].downloaded))
            /\ {cp[p].platformPluginFilePaths[k] : k \in 1..Len(cp[p].platformPluginFilePaths)}
                   = {PlatformTarPath(req[p].repo, req[p].tag, q) :
                          q \in DeclaredPlatforms(cp[p].downloaded)}
            /\ pc[p] = "copyFilesToRemoteServer" =>
                  \A q \in DeclaredPlatforms(cp[p].downloaded) :
                      PluginBinaries(ReadFile(fs[p], PlatformTarPath(req[p].repo, req[p].tag, q)))
                          = {cp[p].downloaded.manifest.executables[q]}

\* a bundle that cannot be unpacked, has no manifest, has no server section or declares
\* no executable
Unsplittable(content) ==
    /\ content.kind = "bundle"
    /\ \/ ~content.valid
       \/ ~content.manifest.found
       \/ ~content.manifest.server
       \/ DeclaredPlatforms(content) = {}

\* C15: for a bundle that cannot be unpacked, has no manifest, has no server section or
\* declares an empty executables map, createPlatformPlugins never enters its loop over
\* the platforms, so no platform archive is written or checked, and it returns an error
\* and no path.
C15_UnsplittableBundleFails ==
    \A p \in Procs :
        Unsplittable(cp[p].downloaded) =>
            /\ pc[p] # "createPlatformPlugins_loop"
            /\ \A q \in Platforms : ~Exists(fs[p], PlatformTarPath(req[p].repo, req[p].tag, q))
            /\ \A k \in 1..Len(calls[p]) : calls[p][k].op # "archiveContains"
            /\ SplitReturned(p) =>
                  /\ SplitFailed(p)
                  /\ cp[p].platformPluginFilePaths = <<>>
                  /\ cp[p].filePaths = <<>>

C15_Witness ==
    \E p \in Procs :
        /\ cp[p].downloaded = BundleNoExecutables
        /\ SplitReturned(p)
        /\ cp[p].err = <<"failed to create platform tars", "no executables defined">>

\* the files of the archive at the path whose base name contains "plugin-"
PluginNamed(files, path) ==
    LET content == ReadFile(files, path)
    IN  IF Unpacks(content) THEN {f \in content.files : Contains(Base(f), "plugin-")} ELSE {}

\* the archive at the path was re-opened and held exactly the expected binary
CheckedOk(p, path) ==
    \E k \in 1..Len(calls[p]) :
        calls[p][k] = [op |-> "archiveContains", arg |-> path, res |-> "ok"]

\* C16: every path in the list createPlatformPlugins builds and returns is the archive of
\* a declared platform that was re-opened after its creation and held exactly one file
\* whose name contains "plugin-", named as that platform's binary; when an archive holds
\* another count or name, or createPlatformPlugins fails otherwise, cutPlugin gets an
\* error and the nil list, not the archives produced so far.
C16_ReturnedArchivesWereChecked ==
    \A p \in Procs :
        /\ \A k \in 1..Len(cp[p].platformPluginFilePaths) :
               LET path == cp[p].platformPluginFilePaths[k]
               IN  /\ CheckedOk(p, path)
                   /\ \E q \in DOMAIN cp[p].platformBinaries :
                          /\ path = PlatformTarPath(req[p].repo, req[p].tag, q)
                          /\ pc[p] \in SplitPcs \cup {"copyFilesToRemoteServer"} =>
                                 /\ Cardinality(PluginNamed(fs[p], path)) = 1
                                 /\ \A f \in PluginNamed(fs[p], path) :
                                        Base(f) = cp[p].platformBinaries[q]
        /\ (\E k \in 1..Len(calls[p]) :
                calls[p][k].op = "archiveContains" /\ calls[p][k].res = "wrong") =>
               SplitFailed(p)
        /\ SplitFailed(p) => cp[p].platformPluginFilePaths = <<>> /\ cp[p].filePaths = <<>>

C16_Witness ==
    \E p \in Procs :
        /\ pc[p] = "copyFilesToRemoteServer"
        /\ Len(cp[p].platformPluginFilePaths) = 2
        /\ \A k \in 1..2 : CheckedOk(p, cp[p].platformPluginFilePaths[k])

----------------------------------------------------------------------------
(* properties of the publication *)

\* how many assets of the release of the request's tag have the name
AssetCount(p, name) ==
    Cardinality({i \in 1..Len(hostReleases[req[p].tag].assets) :
                     hostReleases[req[p].tag].assets[i] = name})

\* uploadFilesToGithub has uploaded the signature of the asset
SignatureUploaded(p) ==
    \E k \in 1..Len(calls[p]) :
        /\ calls[p][k].op = "Repositories.UploadReleaseAsset"
        /\ calls[p][k].res = "ok"

\* C17: uploadFilesToGithub issues the upload of a file only after the asset of the
\* file's name that its lookup found on the release was deleted, and once the upload
\* has succeeded the release holds exactly one asset of that name.
C17_UploadReplaces ==
    \A p \in Procs :
        LET assetName == SigOf(cp[p].githubPluginFilePath)
        IN  /\ pc[p] = "UploadReleaseAsset" =>
                  \/ /\ LastCall(p) = [op |-> "Repositories.DeleteReleaseAsset",
                                       arg |-> assetName, res |-> "ok"]
                     /\ AssetCount(p, assetName) = 0
                  \/ /\ LastCall(p).op = "Repositories.ListReleaseAssets"
                     /\ LastCall(p).res \in {"none", "err"}
                     /\ LastCall(p).res = "none" => AssetCount(p, assetName) = 0
            /\ SignatureUploaded(p) => AssetCount(p, assetName) = 1

C17_Witness ==
    \E p \in Procs :
        /\ pc[p] = "Symlink"
        /\ SignatureUploaded(p)
        /\ \E k \in 1..Len(calls[p]) :
               calls[p][k] = [op |-> "Repositories.DeleteReleaseAsset",
                              arg |-> SigOf(cp[p].githubPluginFilePath), res |-> "ok"]
        /\ AssetCount(p, SigOf(cp[p].githubPluginFilePath)) = 1

\* the positions in the log of the calls of the operation
CallsOf(p, op) == {k \in 1..Len(calls[p]) : calls[p][k].op = op}

\* cutPlugin has returned nil
CutPluginSucceeded(p) == cp[p].returned /\ cp[p].err = Nil

\* the object keys of a release of the repository at the tag for the platform set
ReleaseKeys(repo, tag, platforms) ==
    LET s3PluginFilepath == S3PluginFilepath(repo, tag)
    IN  {<<"release/">> \o s3PluginFilepath, <<"release/">> \o SigOf(s3PluginFilepath)}
        \cup {<<"release/">> \o PlatformTarPath(repo, tag, q) : q \in platforms}
        \cup {<<"release/">> \o SigOf(PlatformTarPath(repo, tag, q)) : q \in platforms}

\* C18: after cutPlugin returned nil for a bundle that declares the platform set P, the
\* source host got exactly one upload, the signature <asset>.sig of the original asset,
\* the object store got each of the keys release/<repo>-<tag>.tar.gz,
\* release/<repo>-<tag>.tar.gz.sig, release/<repo>-<tag>-<q>.tar.gz and
\* release/<repo>-<tag>-<q>.tar.gz.sig for q in P once and no other key, and the upload
\* to the source host came before every upload to the object store.
C18_WhatASuccessPublishes ==
    \A p \in Procs :
        CutPluginSucceeded(p) =>
            LET hostUploads == CallsOf(p, "Repositories.UploadReleaseAsset")
                s3Uploads == CallsOf(p, "uploader.Upload")
                keys == ReleaseKeys(req[p].repo, req[p].tag,
                                    DeclaredPlatforms(cp[p].downloaded))
            IN  /\ Cardinality(hostUploads) = 1
                /\ \A k \in hostUploads :
                       /\ calls[p][k].arg.name = SigOf(cp[p].githubPluginFilePath)
                       /\ calls[p][k].res = "ok"
                       /\ \A j \in s3Uploads : k < j
                /\ {calls[p][j].arg.name : j \in s3Uploads} = keys
                /\ Cardinality(s3Uploads) = Cardinality(keys)
                /\ Cardinality(keys) = 2 + 2 * Cardinality(DeclaredPlatforms(cp[p].downloaded))
                /\ \A j \in s3Uploads : calls[p][j].res = "ok"
                /\ DOMAIN s3Objects = keys

C18_Witness ==
    \E p \in Procs :
        /\ CutPluginSucceeded(p)
        /\ DeclaredPlatforms(cp[p].downloaded) = Platforms
        /\ Cardinality(CallsOf(p, "uploader.Upload")) = 6

----------------------------------------------------------------------------
(* properties of the files staged on the signing host *)

\* the messages signPlugins puts on a failure of its steps before the removal
BeforeRemovalMessages ==
    {"error while copying files", "error while signing files",
     "error while copying remote files", "failed signature verification"}

\* signPlugins returned an error of the upload, the signing, the fetch or the verification
SignFailedBeforeRemoval(p) ==
    /\ cp[p].returned
    /\ cp[p].err # Nil
    /\ Len(cp[p].err) >= 2
    /\ cp[p].err[1] = "failed to sign plugin tars"
    /\ cp[p].err[2] \in BeforeRemovalMessages

\* the paths on the signing host that copyFilesToRemoteServer created
StagedPaths(p) ==
    {calls[p][k].arg : k \in {j \in CallsOf(p, "sftp.Create") : calls[p][j].res # "err"}}

SignedPaths(p) ==
    {calls[p][k].arg.cmd : k \in {j \in CallsOf(p, "sshClient.Run") : calls[p][j].res = "ok"}}

\* C20: at the end of the workflow no file that was staged on the signing host in full
\* and signed there is left on the signing host, whatever step failed afterwards.
C20_SignedFilesAreRemoved ==
    \A p \in Procs :
        pc[p] = "done" =>
            \A path \in SignedPaths(p) :
                (\E k \in CallsOf(p, "sftp.Create") :
                     calls[p][k].arg = path /\ calls[p][k].res = "ok")
                    => ~Exists(remoteFiles, path)

----------------------------------------------------------------------------
(* properties of the command handler *)

\* the handler has written the acknowledgment that the release process started
Acknowledged(p) == resp[p] # <<>> /\ resp[p][1].kind = "message"

\* the place of a position in the order cutPlugin and the goroutine go through
Position(at) ==
    CASE at \in ReleaseWaitPcs -> 1
      [] at = "markTagAsPreRelease" -> 2
      [] at = "markTagAsPreRelease_edit" -> 3
      [] at \in AssetWaitPcs -> 4
      [] at = "MkdirTemp" -> 5
      [] at = "downloadAsset" -> 6
      [] at = "createPlatformPlugins" -> 7
      [] at = "createPlatformPlugins_loop" -> 8
      [] at = "copyFilesToRemoteServer" -> 9
      [] at = "copyFilesToRemoteServer_loop" -> 10
      [] at = "signFilesOnRemoteServer" -> 11
      [] at = "signFilesOnRemoteServer_loop" -> 12
      [] at = "copyFilesFromRemoteServer" -> 13
      [] at = "copyFilesFromRemoteServer_loop" -> 14
      [] at = "verifySignatures" -> 15
      [] at = "removeFilesFromRemoteServer" -> 16
      [] at = "removeFilesFromRemoteServer_loop" -> 17
      [] at = "uploadFilesToGithub" -> 18
      [] at = "getReleaseAsset" -> 19
      [] at = "DeleteReleaseAsset" -> 20
      [] at = "UploadReleaseAsset" -> 21
      [] at = "Symlink" -> 22
      [] at = "Symlink_sig" -> 23
      [] at = "uploadToS3" -> 24
      [] at = "cutPlugin_ret" -> 25
      [] OTHER -> 26

\* the steps the loop or the wait at the position of p can still take
Remaining(p) ==
    CASE pc[p] \in {"getPluginRelease", "getPluginAsset"} -> 2 * (MaxPolls - elapsed[p]) + 1
      [] pc[p] \in {"getPluginRelease_wait", "getPluginAsset_wait"} ->
             2 * (MaxPolls - elapsed[p])
      [] pc[p] = "createPlatformPlugins_loop" -> Cardinality(cp[p].todo)
      [] pc[p] \in {"copyFilesToRemoteServer_loop", "verifySignatures"} ->
             Len(cp[p].filePaths) - cp[p].i
      [] pc[p] \in {"signFilesOnRemoteServer_loop", "removeFilesFromRemoteServer_loop"} ->
             Len(cp[p].remotePaths) - cp[p].i
      [] pc[p] = "copyFilesFromRemoteServer_loop" ->
             Len(cp[p].remoteSignaturePaths) - cp[p].i
      [] pc[p] = "uploadToS3" -> Len(cp[p].s3Bucket) - cp[p].i
      [] OTHER -> 0

\* a bound on the steps the workflow of p takes before its final message
Measure(p) == (26 - Position(pc[p])) * (2 * MaxPolls + 8) + Remaining(p)

\* the workflow of p takes a step
WorkflowStep(p) ==
    cp[p].started /\ <<pc[p], cp[p], elapsed[p], calls[p]>>' # <<pc[p], cp[p], elapsed[p], calls[p]>>

\* the handler acknowledges before the workflow runs and does not wait for it
AcknowledgedFirst ==
    \A p \in Procs :
        /\ Len(resp[p]) <= 1
        /\ cp[p].started <=> Acknowledged(p)
        /\ ~Acknowledged(p) =>
              /\ CallIdx(p, WorkflowOps) = {}
              /\ posts[p] = <<>>
              /\ ~cp[p].returned

\* the final message is the one that tells how cutPlugin returned
OneFinalMessage ==
    \A p \in Procs :
        /\ Len(posts[p]) <= 1
        /\ posts[p] # <<>> =>
              /\ cp[p].returned
              /\ posts[p][1].kind = (IF cp[p].err # Nil THEN "error" ELSE "success")
              /\ posts[p][1].err = cp[p].err
              /\ posts[p][1].kind = "success" => EveryStageSucceeded(p)
        /\ (cp[p].started /\ pc[p] = "done") => Len(posts[p]) = 1

\* the workflow can always go on until its message is posted, and each of its steps
\* lowers the measure
WorkflowEnds ==
    /\ [](\A p \in Procs :
             (cp[p].started /\ posts[p] = <<>>) =>
                 /\ Measure(p) > 0
                 /\ ENABLED (cutPlugin(p) \/ cutPluginCommandF_post(p)))
    /\ [][\A p \in Procs : WorkflowStep(p) => Measure(p)' < Measure(p)]_vars

\* C21: for a cutplugin request that passed validation and createTag, the handler writes
\* the acknowledgment before any call of the workflow and before cutPlugin returns; the
\* workflow started in the background cannot stop before it has posted and takes a
\* bounded number of steps; it posts one message, the failure message with cutPlugin's
\* error if cutPlugin returned an error and the success message otherwise, and a success
\* message only after every stage has succeeded.
C21_AcknowledgeThenOneFinalMessage ==
    /\ []AcknowledgedFirst
    /\ []OneFinalMessage
    /\ WorkflowEnds

C21_Witness ==
    \E p \in Procs :
        /\ pc[p] = "done"
        /\ Acknowledged(p)
        /\ Len(posts[p]) = 1
        /\ posts[p][1].kind = "error"
        /\ posts[p][1].err[1] = "failed to upload to s3"

----------------------------------------------------------------------------
(* more properties of createTag *)

\* the host's lookup of the commit the request names has failed
CommitLookupRefused(p) ==
    /\ req[p].commitSHA # ""
    /\ \E k \in CallIdx(p, {"Repositories.GetCommit"}) :
           calls[p][k].arg = req[p].commitSHA /\ calls[p][k].res # "ok"

\* C22: when a commitSHA is given and the host's lookup of that commit failed, createTag
\* has returned the error "failed to fetch sha details", has issued neither CreateTag nor
\* CreateRef, and the host has no tag object and no ref of the tag.
C22_UnknownCommitCreatesNothing ==
    \A p \in Procs :
        CommitLookupRefused(p) =>
            /\ ct[p].done
            /\ ct[p].ret # Nil
            /\ Head(ct[p].ret) = "failed to fetch sha details"
            /\ CallIdx(p, MutatingOps) = {}
            /\ hostRefs[FullRef(tagRefOf(req[p].tag))] = NoSha
            /\ \A obj \in hostTagObjs : obj.tag # req[p].tag

C22_Witness ==
    \E p \in Procs :
        /\ CommitLookupRefused(p)
        /\ req[p].commitSHA = "bad"
        /\ LastCall(p).res = "404"
        /\ ct[p].done

----------------------------------------------------------------------------
(* more properties of the two waits *)

\* getPluginAsset returned the ambiguity error
AmbiguityError(p) ==
    cp[p].returned /\ cp[p].err = <<"failed to get plugin asset", "found unexpected file">>

\* C23: when the request names an asset, getPluginAsset returns no asset of another name
\* and no ambiguity error, and it returns the asset of that name whenever the release it
\* was given holds one, also next to other .tar.gz assets.
C23_NamedAssetIsTheOneReturned ==
    \A p \in Procs :
        req[p].assetName # <<>> =>
            /\ cp[p].asset \in {NoAsset, req[p].assetName}
            /\ cp[p].asset # NoAsset => SeqContains(cp[p].release.assets, req[p].assetName)
            /\ ~AmbiguityError(p)
            /\ (cp[p].release.exists /\ SeqContains(cp[p].release.assets, req[p].assetName)) =>
                  /\ pc[p] # "getPluginAsset_wait"
                  /\ ~(cp[p].returned /\ cp[p].err # Nil
                        /\ cp[p].err[1] = "failed to get plugin asset")
                  /\ pc[p] \in DownloadPcs => cp[p].asset = req[p].assetName

C23_Witness ==
    \E p \in Procs :
        /\ req[p].assetName = AssetBundle2
        /\ cp[p].release.assets = <<AssetBundle, AssetBundle2>>
        /\ cp[p].asset = AssetBundle2
        /\ pc[p] = "MkdirTemp"

----------------------------------------------------------------------------
(* more properties of signPlugins *)

\* the positions in the log of the signature checks of verifySignatures
SignatureChecks(p) == CallsOf(p, "openpgp.CheckDetachedSignature")

\* the signing host made the signature over the bytes it is checked against
SignatureOfTheFile(arg) == arg.signature.kind = "sig" /\ arg.signature.of = arg.signed

\* C24: a signature the signing host made over a file passes the check of
\* verifySignatures if and only if it was made with the key that matches the embedded
\* public key, and after a check that did not pass signPlugins and cutPlugin have
\* returned the error of the failed verification.
C24_SignThenVerify ==
    \A p \in Procs :
        \A k \in SignatureChecks(p) :
            /\ SignatureOfTheFile(calls[p][k].arg) =>
                  (calls[p][k].res = "ok" <=> calls[p][k].arg.signature.key = TrustedKey)
            /\ calls[p][k].res = "ok" => SignatureOfTheFile(calls[p][k].arg)
            /\ calls[p][k].res # "ok" =>
                  /\ k = Len(calls[p])
                  /\ cp[p].returned
                  /\ Len(cp[p].err) >= 2
                  /\ cp[p].err[1] = "failed to sign plugin tars"
                  /\ cp[p].err[2] = "failed signature verification"

C24_Witness ==
    \E p \in Procs :
        /\ Cardinality(SignatureChecks(p)) = 2
        /\ \E k \in SignatureChecks(p) :
               calls[p][k].res = "ok" /\ calls[p][k].arg.signature.key = TrustedKey
        /\ LastCall(p).op = "openpgp.CheckDetachedSignature"
        /\ LastCall(p).res = "err"
        /\ SignatureOfTheFile(LastCall(p).arg)
        /\ LastCall(p).arg.signature.key = "another key"
        /\ cp[p].returned

----------------------------------------------------------------------------
(* properties of the temporary directories *)

\* the positions at which cutPlugin works in its working directory
WorkDirPcs == {"downloadAsset"} \cup SplitPcs \cup SignPcs \cup GithubUploadPcs
              \cup DuplicationPcs \cup S3UploadPcs

----------------------------------------------------------------------------
(* properties of a retry *)

\* what a successful run publishes: one asset <asset>.sig on the release and no asset
\* name twice, and in the object store the keys of the release and no other, each file
\* with the signature made over it with the trusted key
PublishedState(p) ==
    LET keys == ReleaseKeys(req[p].repo, req[p].tag, DeclaredPlatforms(cp[p].downloaded))
        s3PluginKey == <<"release/">> \o S3PluginFilepath(req[p].repo, req[p].tag)
    IN  /\ AssetCount(p, SigOf(cp[p].asset)) = 1
        /\ \A i, j \in 1..Len(hostReleases[req[p].tag].assets) :
               hostReleases[req[p].tag].assets[i] = hostReleases[req[p].tag].assets[j] => i = j
        /\ DOMAIN s3Objects = keys
        /\ s3Objects[s3PluginKey] = cp[p].downloaded
        /\ \A key \in keys :
               s3Objects[key].kind = "bundle" =>
                   s3Objects[SigOf(key)] = Signature(s3Objects[key], TrustedKey)
        /\ \A k \in 1..Len(cp[p].remotePaths) : ~Exists(remoteFiles, cp[p].remotePaths[k])

\* the handler refused the command because the tag exists
RefusedForTheTag(p) ==
    \E k \in 1..Len(resp[p]) :
        resp[p][k] = [kind |-> "error",
                      text |-> "Tag already exists. Not generating any artifacts."]

\* C26: a cutplugin command given again with force for the same tag, after its workflow
\* failed at some stage, is not refused for the tag that exists, and when its workflow
\* returns nil the published state is that of a first successful run: the release holds
\* exactly one asset <asset>.sig, and the object store holds exactly the keys of the
\* release, whatever the failed run left behind.
C26_RetryPublishesTheSame ==
    \A p \in Procs :
        /\ CutPluginSucceeded(p) => PublishedState(p)
        /\ req[p].attempt = 2 => ~RefusedForTheTag(p)

\* the retry succeeded after a run that had uploaded the signature and part of the files
C26_Witness ==
    \E p \in Procs :
        /\ req[p].attempt = 2
        /\ CutPluginSucceeded(p)
        /\ pc[p] = "done"
        /\ ct[p].ret = ErrTagExists
        /\ OkCalls(p, "Repositories.DeleteReleaseAsset") # {}
        /\ hostReleases[req[p].tag].assets = <<AssetReadme, AssetBundle, SigOf(AssetBundle)>>
        /\ DeclaredPlatforms(cp[p].downloaded) = Platforms

----------------------------------------------------------------------------
(* properties of concurrent requests *)

\* the host refused the CreateRef of p because the ref exists
LostTheRace(p) ==
    \E k \in CallIdx(p, {"Git.CreateRef"}) : calls[p][k].res = "422"

\* C27: of two createTag invocations for the same tag that run at once, at most one
\* issues CreateTag or CreateRef, and the one whose ref the host refuses as existing
\* returns ErrTagExists.
C27_TaggingIsExactlyOnce ==
    \A p, q \in Procs :
        (p # q /\ req[p].tag = req[q].tag) =>
            /\ ~(CallIdx(p, MutatingOps) # {} /\ CallIdx(q, MutatingOps) # {})
            /\ (ct[q].done /\ LostTheRace(q)) => ct[q].ret = ErrTagExists


----------------------------------------------------------------------------
(* properties of two workflows on the signing host *)

\* the paths on the signing host that p has removed
RemovedPaths(p) ==
    {calls[p][k].arg : k \in {j \in CallsOf(p, "sftp.Remove") : calls[p][j].res = "ok"}}

\* the staged file that p's removal loop is about to remove
NextToRemove(p) == cp[p].remotePaths[cp[p].i]

\* p stands at the removal of a file it staged in full and had signed, and the file is
\* no longer on the signing host
StagedFileGone(p) ==
    /\ pc[p] = "removeFilesFromRemoteServer_loop"
    /\ NextToRemove(p) \in StagedPaths(p) \cap SignedPaths(p)
    /\ NextToRemove(p) \notin RemovedPaths(p)
    /\ ~Exists(remoteFiles, NextToRemove(p))

RemovalFailure ==
    <<"failed to sign plugin tars", "failed to remove files from remote server",
      "failed to remove">> \o HostErr

\* every file is staged at /tmp/<base name>, so two workflows for the same repository
\* and tag stage the same file at the same path
SharedStagingPaths ==
    \A p \in Procs :
      /\ \A k \in 1..Len(cp[p].remotePaths) :
             cp[p].remotePaths[k] = <<"/tmp/">> \o cp[p].filePaths[k]
      /\ \A x \in StagedPaths(p) : \E k \in 1..Len(cp[p].filePaths) : x = <<"/tmp/">> \o cp[p].filePaths[k]
      /\ \A q \in Procs :
             req[p].repo = req[q].repo /\ req[p].tag = req[q].tag =>
                 \A k \in 1..Len(cp[p].remotePaths) :
                     k <= Len(cp[q].remotePaths) => cp[p].remotePaths[k] = cp[q].remotePaths[k]

\* a staged file that is gone was removed by the other workflow
GoneByTheOther ==
    \A p \in Procs :
        StagedFileGone(p) => \E q \in Procs \ {p} : NextToRemove(p) \in RemovedPaths(q)

\* the workflow whose staged file is gone fails at its next step
GoneMakesTheWorkflowFail ==
    [][\A p \in Procs :
           StagedFileGone(p) /\ pc'[p] # pc[p] =>
               cp'[p].returned /\ cp'[p].err = RemovalFailure]_vars

\* C28: files are staged on the signing host at /tmp/<base name>; two workflows for the
\* same repository and tag run at once and use the same remote paths, and when one has
\* removed a staged file that the other has not yet removed, the other workflow fails.
C28_WorkflowsShareStagedFiles ==
    /\ []SharedStagingPaths
    /\ []GoneByTheOther
    /\ GoneMakesTheWorkflowFail

\* both workflows staged and signed the same path, one removed it, and the other now
\* stands at its removal
C28_Witness ==
    \E p, q \in Procs :
      /\ p # q
      /\ req[p].repo = req[q].repo /\ req[p].tag = req[q].tag
      /\ StagedFileGone(q)
      /\ NextToRemove(q) \in StagedPaths(p) \cap RemovedPaths(p)

----------------------------------------------------------------------------
(* properties of the permissions *)

\* the command of p is a release command: "cut" or "cutplugin"
ReleaseCommand(p) == Find(initCommands, req[p].Text) \in {"cut", "cutplugin"}

\* the token of p is allowed and its user is in both lists
MayRelease(p) ==
    /\ req[p].Token \in cfg.AllowedTokens
    /\ req[p].UserID \in cfg.AllowedUsers \cap cfg.ReleaseUsers

\* the handler has answered p with an error
Rejected(p) == pc[p] = "done" /\ resp[p] # <<>> /\ resp[p][1].kind = "error"

\* C29: a "cut" or "cutplugin" command is run only if the token is in AllowedTokens and
\* the user is in both AllowedUsers and ReleaseUsers; a user in only one of the two lists,
\* or in neither, is rejected, and a rejected command runs nothing.
C29_ReleaseCommandsNeedBothLists ==
    \A p \in Procs :
      /\ (\E k \in CallsOf(p, "RunE") : calls[p][k].arg \in {"cut", "cutplugin"})
             => MayRelease(p)
      /\ pc[p] = "done" /\ ReleaseCommand(p) /\ ~MayRelease(p)
             => Rejected(p) /\ calls[p] = <<>>
      /\ Rejected(p) => calls[p] = <<>>

\* one user of both lists has had cutplugin run, and a user of only one list has been
\* rejected with the same command
C29_Witness ==
    \E p, q \in Procs :
      /\ req[p].Text = req[q].Text /\ ReleaseCommand(p)
      /\ calls[p] = <<[op |-> "RunE", arg |-> "cutplugin", res |-> "ok"]>>
      /\ req[q].Token \in cfg.AllowedTokens
      /\ req[q].UserID \in cfg.AllowedUsers \ cfg.ReleaseUsers
      /\ Rejected(q) /\ calls[q] = <<>>
      /\ resp[q][1].text = "You don't have permissions to use this command."

----------------------------------------------------------------------------
(* properties of the tag lookup *)

\* the lookup of p returned a ref that names exactly tags/<tag>
ExactRefReturned(p) == FullRef(tagRefOf(req[p].tag)) \in ct[p].refs

\* C30: createTag returns ErrTagExists only if one of the refs the lookup returned names
\* exactly tags/<tag>; refs of other tags that begin with the same text do not stop the
\* tag from being created.
C30_ErrTagExistsOnlyOnExactRef ==
    \A p \in Procs :
      /\ ct[p].done /\ ct[p].ret = ErrTagExists => ExactRefReturned(p)
      /\ ct[p].done /\ ct[p].looked /\ ~ExactRefReturned(p) /\ AllCreateTagCallsSucceeded(p)
             => TagCreatedAt(p, ExpectedCommit(p))

----------------------------------------------------------------------------
(* properties of the commit createTag tags *)

\* the branch whose tip is tagged: the default branch the host reported, "master" if the
\* repository lookup failed or reported none
BranchToTag(p) ==
    IF /\ hostDefaultBranch # ""
       /\ \E k \in CallsOf(p, "Repositories.Get") : calls[p][k].res = "ok"
    THEN hostDefaultBranch
    ELSE "master"

\* the lookup of the branch ref has failed
BranchRefLookupFailed(p) ==
    \E k \in CallsOf(p, "Git.GetRef") : calls[p][k].res # "ok"

----------------------------------------------------------------------------
(* properties of a failed ref creation *)

\* Git.CreateTag of p succeeded and its Git.CreateRef was refused or failed
RefFailedAfterTag(p) ==
    /\ \E k \in CallsOf(p, "Git.CreateTag") : calls[p][k].res = "ok"
    /\ \E k \in CallsOf(p, "Git.CreateRef") : calls[p][k].res # "ok"

\* C32: the tag object is created first and the ref second, with no rollback: when
\* CreateRef fails after CreateTag succeeded, createTag returns an error other than
\* ErrTagExists, CreateRef is its last call, and the tag object stays on the host without
\* a ref.
C32_NoRollbackOfTheTagObject ==
    \A p \in Procs :
      /\ \A i \in CallsOf(p, "Git.CreateRef") :
             \E j \in CallsOf(p, "Git.CreateTag") : j < i /\ calls[p][j].res = "ok"
      /\ RefFailedAfterTag(p) =>
             /\ ct[p].done
             /\ ct[p].ret # Nil /\ ct[p].ret # ErrTagExists
             /\ ct[p].ret[1] = "failed to create ref"
             /\ LastCall(p).op = "Git.CreateRef"
             /\ \E o \in hostTagObjs : o.tag = req[p].tag /\ o.sha = ct[p].commitSHA
             /\ hostRefs[FullRef(tagRefOf(req[p].tag))] = NoSha

\* the host refused the ref after the tag object was created, and the object is still
\* there
C32_Witness ==
    \E p \in Procs :
      /\ RefFailedAfterTag(p)
      /\ ct[p].done
      /\ [tag |-> req[p].tag, sha |-> ct[p].commitSHA] \in hostTagObjs
      /\ hostRefs[FullRef(tagRefOf(req[p].tag))] = NoSha

----------------------------------------------------------------------------
(* properties of the pipeline trigger *)

\* the argument has the form name=value
OfForm(arg, name) ==
    /\ Len(arg) > Len(name)
    /\ SubSeq(arg, 1, Len(name)) = name
    /\ arg[Len(name) + 1] = "="

\* the arguments are undefined, or one of them neither contains "=" nor starts with "--"
InvalidArguments(args) ==
    \/ args.isNil
    \/ \E i \in 1..Len(args.list) :
         /\ \A k \in 1..Len(args.list[i]) : args.list[i][k] # "="
         /\ args.list[i][1] # "--"

\* the value the form is to carry for a variable configured as v
SentAsClaimed(v, args, sent) ==
    /\ v[1] \notin {"%%", "--"} => sent = v
    /\ v[1] = "%%" =>
           \A i \in 1..Len(args) :
               (OfForm(args[i], Tail(v)) /\ \A j \in 1..(i - 1) : ~OfForm(args[j], Tail(v)))
                   => sent = SubSeq(args[i], Len(v) + 1, Len(args[i]))
    /\ v[1] = "--" =>
           sent = IF \E i \in 1..Len(args) : args[i] = v THEN <<"true">> ELSE <<"false">>

\* C33: the form always carries the trigger's token and ref; a plain value is passed
\* unchanged, a value %%name becomes the value of the first argument name=value, a value
\* --flag becomes "true" if the flag is among the arguments and "false" otherwise; nothing
\* is posted when the arguments are undefined or one of them neither contains "=" nor
\* starts with "--".
C33_PipelineFormData ==
    \A p \in Procs :
      pc[p] = "done" =>
        IF InvalidArguments(req[p].args)
        THEN calls[p] = <<>> /\ resp[p] # <<>> /\ resp[p][1].kind = "error"
        ELSE /\ Len(calls[p]) = 1
             /\ calls[p][1].op = "http.PostForm"
             /\ LET form == calls[p][1].arg.formData
                IN  /\ form[<<"token">>] = cfg.Token
                    /\ form[<<"ref">>] = cfg.Reference
                    /\ \A n \in DOMAIN cfg.Variables :
                           SentAsClaimed(cfg.Variables[n], req[p].args.list,
                                         form[<<"variables[", n, "]">>])

\* the case of TestGetPipelineFormData with a second argument for the same name
C33_Witness ==
    \E p \in Procs :
      /\ pc[p] = "done"
      /\ cfg.Variables = [n \in {"A", "C", "E"} |->
                             IF n = "A" THEN <<"B">>
                             ELSE IF n = "C" THEN <<"%%", "BIND_TO_C">>
                             ELSE <<"--", "local">>]
      /\ req[p].args.list = <<<<"BIND_TO_C", "=", "BIND_VALUE">>, <<"BIND_TO_C", "=", "OTHER">>>>
      /\ Len(calls[p]) = 1
      /\ calls[p][1].arg.formData[<<"variables[", "C", "]">>] = <<"BIND_VALUE">>
      /\ calls[p][1].arg.formData[<<"variables[", "E", "]">>] = <<"false">>
      /\ calls[p][1].arg.formData[<<"variables[", "A", "]">>] = <<"B">>

----------------------------------------------------------------------------
(* properties of the pre-release marking *)

\* the calls that download, sign or publish
WorkOps ==
    {"Repositories.DownloadReleaseAsset", "archiveContains", "ssh.Dial", "sftp.Create",
     "sshClient.Run", "sftp.Open", "sftp.Remove", "openpgp.CheckDetachedSignature",
     "Repositories.ListReleaseAssets", "Repositories.DeleteReleaseAsset",
     "Repositories.UploadReleaseAsset", "uploader.Upload"}

\* the EditRelease calls of p that the host answered without error
MarkedAt(p) == {k \in CallsOf(p, "Repositories.EditRelease") : calls[p][k].res = "ok"}

\* cutPlugin returned the error of markTagAsPreRelease
MarkingFailed(p) ==
    /\ cp[p].returned
    /\ cp[p].err # Nil
    /\ cp[p].err[1] = "failed to mark release as pre-release"

\* C34: with the pre-release flag the release is marked after it has been found and
\* before the wait for the asset; if the marking fails cutPlugin returns an error and
\* downloads, signs and publishes nothing; without the flag EditRelease is never called.
C34_PreReleaseIsMarkedFirst ==
    \A p \in Procs :
      /\ ~req[p].preRelease => CallsOf(p, "Repositories.EditRelease") = {}
      /\ \A k \in CallsOf(p, "Repositories.EditRelease") :
             /\ cp[p].release.exists
             /\ \E j \in CallsOf(p, "Repositories.GetReleaseByTag") :
                    j < k /\ calls[p][j].res = "ok"
             /\ \A j \in 1..(k - 1) : calls[p][j].op \notin WorkOps
      /\ req[p].preRelease /\ cp[p].started /\ ~cp[p].returned
             /\ pc[p] \notin ReleaseWaitPcs \cup PreReleasePcs
             => MarkedAt(p) # {} /\ hostReleases[req[p].tag].prerelease
      /\ req[p].preRelease =>
             \A i \in 1..Len(calls[p]) :
                 calls[p][i].op \in WorkOps => \E k \in MarkedAt(p) : k < i
      /\ (\E k \in CallsOf(p, "Repositories.EditRelease") : calls[p][k].res # "ok")
             => (pc[p] \in {"cutPlugin_ret", "done"} => MarkingFailed(p))
      /\ MarkingFailed(p) =>
             /\ \A i \in 1..Len(calls[p]) : calls[p][i].op \notin WorkOps
             /\ cp[p].asset = NoAsset
             /\ cp[p].downloaded = NoFile
             /\ s3Objects = EmptyFiles

\* a request with the flag has waited for the asset after marking the release, and has
\* published
C34_Witness ==
    \E p \in Procs :
      /\ req[p].preRelease
      /\ CutPluginSucceeded(p)
      /\ MarkedAt(p) # {}
      /\ hostReleases[req[p].tag].prerelease
      /\ CallsOf(p, "uploader.Upload") # {}

----------------------------------------------------------------------------
(* properties of the validation of a request *)

\* the tag is empty, does not start with "v" or is no semantic version after it, or the
\* repository is empty
Malformed(r) ==
    \/ r.tag = <<>>
    \/ r.tag[1] # "v"
    \/ Tail(r.tag) \notin SemVers
    \/ r.repo = <<>>

\* the repository search of p found nothing, or failed
RepoNotFound(p) ==
    /\ CallsOf(p, "Search.Repositories") # {}
    /\ \/ req[p].repo \notin HostRepos
       \/ \E k \in CallsOf(p, "Search.Repositories") : calls[p][k].res # "ok"

\* the handler answered p with one error and did nothing else
RejectedAtOnce(p) ==
    /\ pc[p] = "done"
    /\ Len(resp[p]) = 1 /\ resp[p][1].kind = "error"
    /\ posts[p] = <<>>
    /\ ~ct[p].looked /\ ~ct[p].done
    /\ ~cp[p].started
    /\ \A k \in 1..Len(calls[p]) : calls[p][k].op = "Search.Repositories"

\* C35: a request with a malformed tag or an empty repo is rejected before any call to the
\* source host, and a repo the repository search does not find is rejected before
\* createTag; in all these cases no tag is created and no workflow is started.
C35_InvalidRequestsAreRejectedFirst ==
    \A p \in Procs :
      pc[p] \notin {"idle", "cutPluginCommandF"} =>
        /\ Malformed(req[p]) => RejectedAtOnce(p) /\ calls[p] = <<>>
        /\ RepoNotFound(p) => RejectedAtOnce(p) /\ Len(calls[p]) = 1
        /\ CallsOf(p, "Git.GetRefs") # {} =>
               /\ ~Malformed(req[p])
               /\ calls[p][1] = [op |-> "Search.Repositories", arg |-> req[p].repo, res |-> "ok"]

\* a well-formed request for a repository the search does not find has been rejected
C35_Witness ==
    \E p \in Procs :
      /\ ~Malformed(req[p])
      /\ req[p].repo \notin HostRepos
      /\ RejectedAtOnce(p)
      /\ calls[p] = <<[op |-> "Search.Repositories", arg |-> req[p].repo, res |-> "ok"]>>
      /\ resp[p][1].text = "looks like this repository is not part of the org"

----------------------------------------------------------------------------
(* properties of the upload to the release *)

\* the release of p's tag holds an asset with the name p uploads
NameTaken(p) ==
    SeqContains(hostReleases[req[p].tag].assets, SigOf(cp[p].githubPluginFilePath))

\* C36: uploadFilesToGithub issues the upload of an asset name only when the release holds
\* no asset of that name, whatever the host calls before it answered, a failed listing of
\* the release's assets included.
C36_UploadOnlyWhenNameIsFree ==
    \A p \in Procs : pc[p] = "UploadReleaseAsset" => ~NameTaken(p)

----------------------------------------------------------------------------
(* properties of the asset's name *)

\* the bundle as downloaded is still what the temporary folder holds under its name
BundleUntouched(p) ==
    ReadFile(fs[p], cp[p].githubPluginFilePath) = cp[p].downloaded

\* C37: whatever the release asset is named, the downloaded bundle stays unmodified in the
\* temporary folder up to its upload, its duplicate <repo>-<tag>.tar.gz can be made, and a
\* successful run has published the original bundle under release/<repo>-<tag>.tar.gz.
C37_OutcomeIndependentOfAssetName ==
    \A p \in Procs :
      /\ pc[p] \in SplitPcs \cup SignPcs \cup GithubUploadPcs \cup {"Symlink"} =>
             BundleUntouched(p)
      /\ pc[p] = "Symlink" =>
             ~Exists(fs[p], S3PluginFilepath(req[p].repo, req[p].tag))
      /\ CutPluginSucceeded(p) =>
             LET key == <<"release/">> \o S3PluginFilepath(req[p].repo, req[p].tag)
             IN  Exists(s3Objects, key) /\ s3Objects[key] = cp[p].downloaded
----------------------------------------------------------------------------
(* properties of the release job *)

ReleaseJobs == {cfg.ReleaseJob, cfg.ReleaseJobLegacy}

\* the invocations of the job that p's calls were accepted for
Triggers(p, name) ==
    {k \in 1..Len(calls[p]) : /\ calls[p][k].op = "job.InvokeSimple"
                              /\ calls[p][k].res = "ok"
                              /\ calls[p][k].arg.job = name}

\* the runs of the job that are triggered and not finished: queued or running
RunsUnderWay(name) ==
    Cardinality(hostReleases[name].queued) + (IF LastBuildIsRunning(hostReleases[name]) THEN 1 ELSE 0)

\* C38: CutRelease triggers the release job only while the job's last build is not
\* running, so that a job never has more than one run under way: each accepted
\* job.InvokeSimple met a last build that was not running and an empty queue, and no job
\* has more than one run queued or running
C38_OneReleaseRunAtATime ==
    /\ \A p \in Procs : \A name \in ReleaseJobs : \A k \in Triggers(p, name) :
         /\ calls[p][k].arg.lastBuild # "running"
         /\ calls[p][k].arg.queued = {}
    /\ \A name \in ReleaseJobs : RunsUnderWay(name) <= 1

----------------------------------------------------------------------------
(* properties of createPlatformPlugin's result *)

\* C39: createPlatformPlugin returns a non-nil error whenever it does not produce the
\* archive at platformTarPath: for every platform the loop of createPlatformPlugins is
\* about to split the bundle for, and whether or not the shell command fails, a nil
\* result comes with an archive at the platform's path
C39_NilOnlyWithTheArchive ==
    \A p \in Procs :
        pc[p] = "createPlatformPlugins_loop" =>
            \A platform \in cp[p].todo, cmdFails \in BOOLEAN :
                LET platformTarPath == PlatformTarPath(req[p].repo, req[p].tag, platform)
                    made == createPlatformPlugin(fs[p], cp[p].githubPluginFilePath,
                                                 cp[p].platformBinaries[platform],
                                                 platformTarPath, cmdFails)
                IN  made.err = Nil =>
                        /\ Exists(made.files, platformTarPath)
                        /\ Unpacks(ReadFile(made.files, platformTarPath))

====
